---- MODULE Spec2Model ----
(***************************************************************************)
(* Model of the ingestion orchestration of CognitiveCLI.load_memories     *)
(* (src/interfaces/cli.py).  The loader and the cognitive system are      *)
(* collaborators: every call made on them is appended to `calls` together *)
(* with the answer the collaborator gave.                                  *)
(***************************************************************************)
EXTENDS Integers, Sequences, FiniteSets, TLC

VARIABLES
    tree,                       \* entries below the source directory
    linked,                     \* the sub directory is a symbolic link
    store,                      \* ids of the records held by the store
    store0,                     \* the store when load_memories was entered
    pc,                         \* "idle", "loop", "done"
    source_path, loader_type, dry_run, recursive,
    markdown_files,             \* list built by the os.walk loop
    sorted_files,               \* sorted(markdown_files), the loop's iterable
    idx,                        \* number of loop iterations completed
    total_success,
    total_memories_loaded,
    total_connections_created,
    total_memories_failed,
    total_connections_failed,
    hierarchy_dist_combined,
    calls,                      \* collaborator calls, in order
    out,                        \* lines printed about units
    ret,                        \* return value of load_memories (at "done")
    history,                    \* the operations completed before this one
    held,                       \* what the store answers a search with
    reply,                      \* arguments and result of a retrieval
    proc,                       \* the process running a command line
    collections,                \* names of the collections Qdrant holds
    clean                       \* the project_clean command being run

vars == <<tree, linked, store, store0, pc, source_path, loader_type,
          dry_run, recursive, markdown_files, sorted_files, idx,
          total_success, total_memories_loaded, total_connections_created,
          total_memories_failed, total_connections_failed,
          hierarchy_dist_combined, calls, out, ret, history, held, reply,
          proc, collections, clean>>

(***************************************************************************)
(* Bounds                                                                  *)
(***************************************************************************)
MaxFiles == 3                   \* entries in the source directory
MaxRuns == 2                    \* operations completed before the last one

(***************************************************************************)
(* The file system the runs are made on.  A file has the directory it is   *)
(* in (relative to the source directory), a name, a suffix and the        *)
(* hierarchy levels of the memories a loader derives from it.             *)
(***************************************************************************)
SubDir == 3                     \* name of the one sub directory
SourceDir == <<5>>              \* the source directory, as given
LinkTarget == <<2>>             \* what SubDir points to when it is a link

Files == <<
    [dir |-> <<>>,       name |-> 1, ext |-> ".md",  memories |-> <<0, 1>>],
    [dir |-> <<>>,       name |-> 4, ext |-> ".md",  memories |-> <<2>>],
    [dir |-> <<SubDir>>, name |-> 2, ext |-> ".md",  memories |-> <<1, 3>>],
    [dir |-> <<>>,       name |-> 2, ext |-> ".txt", memories |-> <<>>],
    [dir |-> <<>>,       name |-> 0, ext |-> ".git", memories |-> <<>>] >>

GitEntry == 5                   \* the entry .git of the source directory
Entries == 1..Len(Files)
FileIds == Entries \ {GitEntry}   \* the regular files
DirUnit == 0                    \* the source directory itself
RepoMemories == <<0, 2>>        \* what the git loader derives from the repo

Memories(u) == IF u = DirUnit THEN RepoMemories ELSE Files[u].memories

\* Path(root) / file
FilePath(f) == SourceDir \o Files[f].dir \o <<Files[f].name>>

\* Path.resolve(): symbolic links replaced by their targets
Resolve(p, isLink) ==
    IF isLink /\ Len(p) > Len(SourceDir)
       /\ SubSeq(p, 1, Len(SourceDir) + 1) = SourceDir \o <<SubDir>>
    THEN LinkTarget \o SubSeq(p, Len(SourceDir) + 2, Len(p))
    ELSE p

\* PurePath.__lt__: comparison of the lists of path components
RECURSIVE PathLess(_, _)
PathLess(p, q) ==
    IF q = <<>> THEN FALSE
    ELSE IF p = <<>> THEN TRUE
    ELSE IF Head(p) # Head(q) THEN Head(p) < Head(q)
    ELSE PathLess(Tail(p), Tail(q))

\* sorted(markdown_files)
RECURSIVE SortFiles(_)
SortFiles(S) ==
    IF S = {} THEN <<>>
    ELSE LET m == CHOOSE x \in S :
                    \A y \in S \ {x} : PathLess(FilePath(x), FilePath(y))
         IN <<m>> \o SortFiles(S \ {m})

Range(s) == {s[i] : i \in 1..Len(s)}

\* the loop iterates over the list as the walk built it
SortedNot(seq) == seq

Sorted(seq) == SortFiles(Range(seq))

\* orders in which one directory lists the files of S
Listings(S) ==
    {s \in [1..Cardinality(S) -> S] : \A i, j \in 1..Cardinality(S) :
                                        i # j => s[i] # s[j]}

\* os.walk(top-down): the files of the source directory in listing order,
\* then those of the sub directory in listing order
WalkOrders(T) ==
    LET top == {f \in T \cap FileIds : Files[f].dir = <<>>}
        sub == {f \in T \cap FileIds : Files[f].dir # <<>>}
    IN {a \o b : a \in Listings(top), b \in Listings(sub)}

\* file.endswith(ext) for some ext in extensions
MatchesExtension(f, extensions) == Files[f].ext \in extensions

RECURSIVE FilterSeq(_, _)
FilterSeq(s, extensions) ==
    IF s = <<>> THEN <<>>
    ELSE (IF MatchesExtension(Head(s), extensions) THEN <<Head(s)>> ELSE <<>>)
         \o FilterSeq(Tail(s), extensions)

\* loader.get_supported_extensions()
SupportedExtensions(lt) ==
    IF lt = "markdown" THEN {".md"} ELSE {}

LoaderTypes == {"markdown", "git", "json"}

(***************************************************************************)
(* Collaborator answers                                                    *)
(***************************************************************************)
LevelKeys == <<"L0", "L1", "L2", "L3">>
LevelKey(l) == LevelKeys[l + 1]         \* f"L{memory.hierarchy_level}"
DistKeys == {"L0", "L1", "L2"}          \* keys of hierarchy_dist_combined

CountLevel(ms, k) == Cardinality({i \in 1..Len(ms) : LevelKey(ms[i]) = k})

\* the report of load_memories_from_source for a unit whose last `nfail`
\* records could not be stored
MakeReport(u, nfail, ok, withDist) ==
    LET ms     == Memories(u)
        stored == SubSeq(ms, 1, Len(ms) - nfail)
        conns  == IF Len(ms) > 0 THEN Len(ms) - 1 ELSE 0
        made   == IF Len(stored) > 0 THEN Len(stored) - 1 ELSE 0
    IN [success |-> ok,
        memories_loaded |-> Len(stored),
        connections_created |-> made,
        memories_failed |-> nfail,
        connections_failed |-> conns - made,
        has_dist |-> withDist,
        hierarchy_distribution |->
            [k \in DistKeys \cup {LevelKey(stored[i]) : i \in 1..Len(stored)}
                |-> CountLevel(stored, k)]]

\* the ids are drawn afresh at each load instead of derived from the source
CommittedAfresh(u, n) == {<<u, i + Cardinality(store)>> : i \in 1..n}

\* records of unit u committed to the store when n of them are stored
Committed(u, n) == {<<u, i>> : i \in 1..n}

Call(op, u, raised, value) ==
    [op |-> op, unit |-> u, raised |-> raised, value |-> value]

Line(msg, u) == [msg |-> msg, unit |-> u]

ZeroDist == [k \in DistKeys |-> 0]

\* the three kinds of retrieval results
AllTypes == <<"core", "peripheral", "bridge">>

\* a store that holds nothing a search would return
NothingHeld == [b \in Range(AllTypes) |-> <<>>]

\* no retrieval was made
NoReply == [op |-> "none"]

\* no command line is being run
NoProc == [pc |-> "none"]

NoClean == [pc |-> "none"]

\* a record the store holds before any ingestion
InitialStore == {<<DirUnit, 1>>}

Init ==
    /\ tree \in {T \in SUBSET Entries : Cardinality(T) <= MaxFiles}
    /\ linked \in BOOLEAN
    /\ store = InitialStore
    /\ store0 = store
    /\ pc = "idle"
    /\ source_path = DirUnit
    /\ loader_type = "markdown"
    /\ dry_run = FALSE
    /\ recursive = FALSE
    /\ markdown_files = <<>>
    /\ sorted_files = <<>>
    /\ idx = 0
    /\ total_success = TRUE
    /\ total_memories_loaded = 0
    /\ total_connections_created = 0
    /\ total_memories_failed = 0
    /\ total_connections_failed = 0
    /\ hierarchy_dist_combined = ZeroDist
    /\ calls = <<>>
    /\ out = <<>>
    /\ ret = FALSE
    /\ history = <<>>
    /\ held = NothingHeld
    /\ reply = NoReply
    /\ proc = NoProc
    /\ collections = {}
    /\ clean = NoClean

(***************************************************************************)
(* load_memories                                                           *)
(***************************************************************************)
\* a directory with .git is one unit whatever the loader
IsManyFileDirectoryAnyLoader(src, lt) ==
    src = DirUnit /\ GitEntry \notin tree

\* source_path_obj.is_dir() and not (loader_type == "git" and .git exists)
IsManyFileDirectory(src, lt) ==
    src = DirUnit /\ ~(lt = "git" /\ GitEntry \in tree)

Enter(src, lt, dr, rec) ==
    /\ pc = "idle"
    /\ src \in {DirUnit} \cup (tree \cap FileIds)
    /\ source_path' = src
    /\ loader_type' = lt
    /\ dry_run' = dr
    /\ recursive' = rec
    /\ store0' = store

Return(v) ==
    /\ pc' = "done"
    /\ ret' = v

Totals == <<total_success, total_memories_loaded, total_connections_created,
            total_memories_failed, total_connections_failed,
            hierarchy_dist_combined>>

\* what a load_memories run leaves alone
Env == <<tree, linked, history, held, reply, proc, collections, clean>>
Args == <<source_path, loader_type, dry_run, recursive, store0>>

\* loader_type not in ["markdown", "git"]
LoadUnsupportedType(src, lt, dr, rec) ==
    /\ Enter(src, lt, dr, rec)
    /\ lt \notin {"markdown", "git"}
    /\ Return(FALSE)
    /\ UNCHANGED <<Env, store, markdown_files, sorted_files, idx, Totals,
                   calls, out>>

\* the suffixes are asked for before the --recursive test
LoadDirNotRecursiveLate(src, lt, dr, rec) ==
    /\ Enter(src, lt, dr, rec)
    /\ lt \in {"markdown", "git"}
    /\ IsManyFileDirectory(src, lt)
    /\ ~rec
    /\ calls' = Append(calls, Call("get_supported_extensions", src, FALSE,
                                   SupportedExtensions(lt)))
    /\ out' = Append(out, Line("usage", src))
    /\ Return(FALSE)
    /\ UNCHANGED <<Env, store, markdown_files, sorted_files, idx, Totals>>

\* a directory without --recursive
LoadDirNotRecursive(src, lt, dr, rec) ==
    /\ Enter(src, lt, dr, rec)
    /\ lt \in {"markdown", "git"}
    /\ IsManyFileDirectory(src, lt)
    /\ ~rec
    /\ out' = Append(out, Line("usage", src))
    /\ Return(FALSE)
    /\ UNCHANGED <<Env, store, markdown_files, sorted_files, idx, Totals,
                   calls>>

\* an empty walk is reported as a success
LoadDirNoFilesSucceeds(src, lt, dr, rec) ==
    /\ Enter(src, lt, dr, rec)
    /\ lt \in {"markdown", "git"}
    /\ IsManyFileDirectory(src, lt)
    /\ rec
    /\ LET extensions == SupportedExtensions(lt) IN
       /\ calls' = Append(calls,
                      Call("get_supported_extensions", src, FALSE, extensions))
       /\ \E walk \in WalkOrders(tree) :
            /\ markdown_files' = FilterSeq(walk, extensions)
            /\ markdown_files' = <<>>
    /\ out' = Append(out, Line("no_files", src))
    /\ Return(TRUE)
    /\ UNCHANGED <<Env, store, sorted_files, idx, Totals>>

\* the walk finds no file with a supported suffix
LoadDirNoFiles(src, lt, dr, rec) ==
    /\ Enter(src, lt, dr, rec)
    /\ lt \in {"markdown", "git"}
    /\ IsManyFileDirectory(src, lt)
    /\ rec
    /\ LET extensions == SupportedExtensions(lt) IN
       /\ calls' = Append(calls,
                      Call("get_supported_extensions", src, FALSE, extensions))
       /\ \E walk \in WalkOrders(tree) :
            /\ markdown_files' = FilterSeq(walk, extensions)
            /\ markdown_files' = <<>>
    /\ out' = Append(out, Line("no_files", src))
    /\ Return(FALSE)
    /\ UNCHANGED <<Env, store, sorted_files, idx, Totals>>

\* the walk finds files: the totals are reset and the loop begins
LoadDirBegin(src, lt, dr, rec) ==
    /\ Enter(src, lt, dr, rec)
    /\ lt \in {"markdown", "git"}
    /\ IsManyFileDirectory(src, lt)
    /\ rec
    /\ LET extensions == SupportedExtensions(lt) IN
       /\ calls' = Append(calls,
                      Call("get_supported_extensions", src, FALSE, extensions))
       /\ \E walk \in WalkOrders(tree) :
            /\ markdown_files' = FilterSeq(walk, extensions)
            /\ markdown_files' # <<>>
    /\ sorted_files' = Sorted(markdown_files')
    /\ idx' = 0
    /\ total_success' = TRUE
    /\ total_memories_loaded' = 0
    /\ total_connections_created' = 0
    /\ total_memories_failed' = 0
    /\ total_connections_failed' = 0
    /\ hierarchy_dist_combined' = ZeroDist
    /\ out' = Append(out, Line("found", src))
    /\ pc' = "loop"
    /\ UNCHANGED <<Env, store, ret>>

\* hierarchy_dist_combined after counting the memories of a dry run
CountMemories(dist, ms) ==
    [k \in DOMAIN dist |-> dist[k] + CountLevel(ms, k)]

\* the report's distribution replaces the running one
MergeDistributionOverwrite(dist, results) ==
    IF results.has_dist
    THEN [k \in DOMAIN dist |->
            IF k \in DOMAIN results.hierarchy_distribution
            THEN results.hierarchy_distribution[k]
            ELSE dist[k]]
    ELSE dist

\* hierarchy_dist_combined after merging a report's hierarchy_distribution
MergeDistribution(dist, results) ==
    IF results.has_dist
    THEN [k \in DOMAIN dist |->
            IF k \in DOMAIN results.hierarchy_distribution
            THEN dist[k] + results.hierarchy_distribution[k]
            ELSE dist[k]]
    ELSE dist

CurrentUnit == sorted_files[idx + 1]

\* a skipped file marks the run as failed
SkipInvalidUnitFails ==
    /\ pc = "loop"
    /\ idx < Len(sorted_files)
    /\ calls' = Append(calls, Call("validate_source", CurrentUnit, FALSE, FALSE))
    /\ out' = Append(out, Line("skip", CurrentUnit))
    /\ idx' = idx + 1
    /\ total_success' = FALSE
    /\ UNCHANGED <<Env, Args, store, pc, markdown_files, sorted_files,
                   total_memories_loaded, total_connections_created,
                   total_memories_failed, total_connections_failed,
                   hierarchy_dist_combined, ret>>

\* the `continue` is missing: a file that failed validation is loaded
SkipInvalidUnitFallsThrough ==
    /\ pc = "loop"
    /\ idx < Len(sorted_files)
    /\ LET u == CurrentUnit
           results == MakeReport(u, 0, TRUE, TRUE)
       IN /\ calls' = calls \o
                 <<Call("validate_source", u, FALSE, FALSE),
                   Call("load_memories_from_source", u, FALSE, results)>>
          /\ out' = out \o <<Line("skip", u), Line("loading", u),
                              Line("loaded", u)>>
          /\ store' = store \cup Committed(u, results.memories_loaded)
          /\ total_memories_loaded' =
                 total_memories_loaded + results.memories_loaded
    /\ idx' = idx + 1
    /\ UNCHANGED <<Env, Args, pc, markdown_files, sorted_files, total_success,
                   total_connections_created, total_memories_failed,
                   total_connections_failed, hierarchy_dist_combined, ret>>

\* loop iteration: validate_source fails, the file is skipped
SkipInvalidUnit ==
    /\ pc = "loop"
    /\ idx < Len(sorted_files)
    /\ calls' = Append(calls, Call("validate_source", CurrentUnit, FALSE, FALSE))
    /\ out' = Append(out, Line("skip", CurrentUnit))
    /\ idx' = idx + 1
    /\ UNCHANGED <<Env, Args, store, pc, markdown_files, sorted_files, Totals,
                   ret>>

\* loop iteration with dry_run: load_from_source and extract_connections
AnalyzeUnit ==
    /\ pc = "loop"
    /\ idx < Len(sorted_files)
    /\ dry_run
    /\ LET u  == CurrentUnit
           ms == Memories(u)
           v  == Call("validate_source", u, FALSE, TRUE)
           conns == IF Len(ms) > 0 THEN Len(ms) - 1 ELSE 0
       IN
       \/ /\ calls' = calls \o <<v, Call("load_from_source", u, TRUE, <<>>)>>
          /\ out' = out \o <<Line("analyzing", u), Line("error", u)>>
          /\ total_success' = FALSE
          /\ UNCHANGED hierarchy_dist_combined
       \/ /\ calls' = calls \o <<v, Call("load_from_source", u, FALSE, ms),
                                 Call("extract_connections", u, TRUE, 0)>>
          /\ out' = out \o <<Line("analyzing", u), Line("error", u)>>
          /\ total_success' = FALSE
          /\ UNCHANGED hierarchy_dist_combined
       \/ /\ calls' = calls \o <<v, Call("load_from_source", u, FALSE, ms),
                                 Call("extract_connections", u, FALSE, conns)>>
          /\ out' = out \o <<Line("analyzing", u), Line("would_load", u)>>
          /\ hierarchy_dist_combined' = CountMemories(hierarchy_dist_combined, ms)
          /\ UNCHANGED total_success
    /\ idx' = idx + 1
    /\ UNCHANGED <<Env, Args, store, pc, markdown_files, sorted_files,
                   total_memories_loaded, total_connections_created,
                   total_memories_failed, total_connections_failed, ret>>

\* per-record failures clear total_success
AccumulateReportStrict(results) ==
    /\ total_memories_loaded' = total_memories_loaded + results.memories_loaded
    /\ total_connections_created' =
            total_connections_created + results.connections_created
    /\ total_memories_failed' = total_memories_failed + results.memories_failed
    /\ total_connections_failed' =
            total_connections_failed + results.connections_failed
    /\ hierarchy_dist_combined' =
            MergeDistribution(hierarchy_dist_combined, results)
    /\ total_success' = (total_success /\ results.memories_failed = 0
                                       /\ results.connections_failed = 0)

\* failed connections are added to the failed memories
AccumulateReportMixed(results) ==
    /\ total_memories_loaded' = total_memories_loaded + results.memories_loaded
    /\ total_connections_created' =
            total_connections_created + results.connections_created
    /\ total_memories_failed' = total_memories_failed + results.connections_failed
    /\ total_connections_failed' =
            total_connections_failed + results.connections_failed
    /\ hierarchy_dist_combined' =
            MergeDistribution(hierarchy_dist_combined, results)
    /\ UNCHANGED total_success

\* the totals after a report with success = true
AccumulateReport(results) ==
    /\ total_memories_loaded' = total_memories_loaded + results.memories_loaded
    /\ total_connections_created' =
            total_connections_created + results.connections_created
    /\ total_memories_failed' = total_memories_failed + results.memories_failed
    /\ total_connections_failed' =
            total_connections_failed + results.connections_failed
    /\ hierarchy_dist_combined' =
            MergeDistribution(hierarchy_dist_combined, results)
    /\ UNCHANGED total_success

\* the totals after a report with success = false or an exception
RecordUnitFailure ==
    /\ total_success' = FALSE
    /\ UNCHANGED <<total_memories_loaded, total_connections_created,
                   total_memories_failed, total_connections_failed,
                   hierarchy_dist_combined>>

\* the else branch of `if dry_run`: load_memories_from_source
StoreUnit ==
    /\ pc = "loop"
    /\ idx < Len(sorted_files)
    /\ LET u == CurrentUnit
           v == Call("validate_source", u, FALSE, TRUE)
       IN
       \/ \E n \in 0..Len(Memories(u)) :
            /\ calls' = calls \o
                   <<v, Call("load_memories_from_source", u, TRUE, <<>>)>>
            /\ store' = store \cup Committed(u, n)
            /\ out' = out \o <<Line("loading", u), Line("error", u)>>
            /\ RecordUnitFailure
       \/ \E nfail \in 0..Len(Memories(u)), ok \in BOOLEAN, withDist \in BOOLEAN :
            LET results == MakeReport(u, nfail, ok, withDist) IN
            /\ calls' = calls \o
                   <<v, Call("load_memories_from_source", u, FALSE, results)>>
            /\ store' = store \cup Committed(u, results.memories_loaded)
            /\ IF results.success
               THEN /\ AccumulateReport(results)
                    /\ out' = out \o <<Line("loading", u), Line("loaded", u)>>
               ELSE /\ RecordUnitFailure
                    /\ out' = out \o <<Line("loading", u), Line("failed", u)>>
    /\ idx' = idx + 1
    /\ UNCHANGED <<Env, Args, pc, markdown_files, sorted_files, ret>>

\* the store is written whatever dry_run says
LoadUnitIgnoresDryRun == StoreUnit

\* a store call that raised is issued a second time
LoadUnitRetries ==
    /\ ~dry_run
    /\ pc = "loop"
    /\ idx < Len(sorted_files)
    /\ LET u == CurrentUnit
           failed == Call("load_memories_from_source", u, TRUE, <<>>)
       IN /\ calls' = calls \o
                 <<Call("validate_source", u, FALSE, TRUE), failed, failed>>
          /\ out' = out \o <<Line("loading", u), Line("error", u)>>
    /\ RecordUnitFailure
    /\ idx' = idx + 1
    /\ UNCHANGED <<Env, Args, store, pc, markdown_files, sorted_files, ret>>

\* loop iteration without dry_run
LoadUnit == ~dry_run /\ StoreUnit

\* the loop is left at the first failed unit
LoadDirFinishOnFailure ==
    /\ pc = "loop"
    /\ (idx = Len(sorted_files) \/ ~total_success)
    /\ out' = Append(out, Line("summary", source_path))
    /\ Return(total_success)
    /\ UNCHANGED <<Env, Args, store, markdown_files, sorted_files, idx, Totals,
                   calls>>

\* after the loop: the summary, return total_success
LoadDirFinish ==
    /\ pc = "loop"
    /\ idx = Len(sorted_files)
    /\ out' = Append(out, Line("summary", source_path))
    /\ Return(total_success)
    /\ UNCHANGED <<Env, Args, store, markdown_files, sorted_files, idx, Totals,
                   calls>>

\* single unit: validate_source fails
LoadSingleInvalid(src, lt, dr, rec) ==
    /\ Enter(src, lt, dr, rec)
    /\ lt \in {"markdown", "git"}
    /\ ~IsManyFileDirectory(src, lt)
    /\ calls' = Append(calls, Call("validate_source", src, FALSE, FALSE))
    /\ out' = Append(out, Line("invalid", src))
    /\ Return(FALSE)
    /\ UNCHANGED <<Env, store, markdown_files, sorted_files, idx, Totals>>

\* single unit with dry_run
LoadSingleDryRun(src, lt, dr, rec) ==
    /\ Enter(src, lt, dr, rec)
    /\ lt \in {"markdown", "git"}
    /\ ~IsManyFileDirectory(src, lt)
    /\ dr
    /\ LET ms == Memories(src)
           v  == Call("validate_source", src, FALSE, TRUE)
           conns == IF Len(ms) > 0 THEN Len(ms) - 1 ELSE 0
       IN
       \/ /\ calls' = calls \o <<v, Call("load_from_source", src, TRUE, <<>>)>>
          /\ out' = Append(out, Line("error", src))
          /\ Return(FALSE)
       \/ /\ calls' = calls \o <<v, Call("load_from_source", src, FALSE, ms),
                                 Call("extract_connections", src, TRUE, 0)>>
          /\ out' = Append(out, Line("error", src))
          /\ Return(FALSE)
       \/ /\ calls' = calls \o <<v, Call("load_from_source", src, FALSE, ms),
                                 Call("extract_connections", src, FALSE, conns)>>
          /\ out' = Append(out, Line("would_load", src))
          /\ Return(TRUE)
    /\ UNCHANGED <<Env, store, markdown_files, sorted_files, idx, Totals>>

\* single unit without dry_run
LoadSingleStore(src, lt, dr, rec) ==
    /\ Enter(src, lt, dr, rec)
    /\ lt \in {"markdown", "git"}
    /\ ~IsManyFileDirectory(src, lt)
    /\ ~dr
    /\ LET v == Call("validate_source", src, FALSE, TRUE) IN
       \/ \E n \in 0..Len(Memories(src)) :
            /\ calls' = calls \o
                   <<v, Call("load_memories_from_source", src, TRUE, <<>>)>>
            /\ store' = store \cup Committed(src, n)
            /\ out' = Append(out, Line("error", src))
            /\ Return(FALSE)
       \/ \E nfail \in 0..Len(Memories(src)), ok \in BOOLEAN, withDist \in BOOLEAN :
            LET results == MakeReport(src, nfail, ok, withDist) IN
            /\ calls' = calls \o
                   <<v, Call("load_memories_from_source", src, FALSE, results)>>
            /\ store' = store \cup Committed(src, results.memories_loaded)
            /\ IF ~results.success
               THEN /\ out' = Append(out, Line("failed", src))
                    /\ Return(FALSE)
               ELSE IF results.has_dist
                       /\ ~(DOMAIN results.hierarchy_distribution \subseteq DistKeys)
               \* level_name lookup raises KeyError, caught by the outer except
               THEN /\ out' = Append(out, Line("error", src))
                    /\ Return(FALSE)
               ELSE /\ out' = Append(out, Line("loaded", src))
                    /\ Return(TRUE)
    /\ UNCHANGED <<Env, markdown_files, sorted_files, idx, Totals>>

Next ==
    \/ \E src \in {DirUnit} \cup FileIds, lt \in LoaderTypes,
          dr \in BOOLEAN, rec \in BOOLEAN :
            \/ LoadUnsupportedType(src, lt, dr, rec)
            \/ LoadDirNotRecursive(src, lt, dr, rec)
            \/ LoadDirNoFiles(src, lt, dr, rec)
            \/ LoadDirBegin(src, lt, dr, rec)
            \/ LoadSingleInvalid(src, lt, dr, rec)
            \/ LoadSingleDryRun(src, lt, dr, rec)
            \/ LoadSingleStore(src, lt, dr, rec)
    \/ SkipInvalidUnit
    \/ AnalyzeUnit
    \/ LoadUnit
    \/ LoadDirFinish

Spec == Init /\ [][Next]_vars

TypeOK ==
    /\ pc \in {"idle", "loop", "done"}
    /\ ret \in BOOLEAN
    /\ total_success \in BOOLEAN
    /\ idx \in 0..Len(sorted_files)
    /\ store0 \subseteq store

(***************************************************************************)
(* What the log of collaborator calls says about a run                     *)
(***************************************************************************)
LoadOps == {"load_from_source", "extract_connections",
            "load_memories_from_source"}
CollaboratorOps == {"load_memories_from_source", "store_experience"}

CallIndexes(op, u) ==
    {i \in 1..Len(calls) : calls[i].op = op /\ calls[i].unit = u}

\* the walk of the source directory took place
Walked == \E i \in 1..Len(calls) : calls[i].op = "get_supported_extensions"

\* the loop over the files ran to its end and load_memories returned
Completed == pc = "done" /\ sorted_files # <<>>

Validated(u) == CallIndexes("validate_source", u) # {}
PassedValidation(u) ==
    \E i \in CallIndexes("validate_source", u) : calls[i].value
Skipped(u) ==
    \E i \in CallIndexes("validate_source", u) : ~calls[i].value

\* the unit's load raised, or its report says success = false
UnitFailed(u) ==
    \E i \in 1..Len(calls) :
        /\ calls[i].unit = u
        /\ calls[i].op \in LoadOps
        /\ \/ calls[i].raised
           \/ /\ calls[i].op = "load_memories_from_source"
              /\ ~calls[i].value.success

LoadAttempted(u) ==
    IF dry_run THEN CallIndexes("load_from_source", u) # {}
    ELSE CallIndexes("load_memories_from_source", u) # {}

Units == Range(sorted_files)
FailedUnits == {u \in Units : UnitFailed(u)}

\* lines that report the failure of a unit
FailureLines == {i \in 1..Len(out) : out[i].msg \in {"error", "failed"}}

\* the reports the collaborator returned, in call order
IsReport(c) == c.op = "load_memories_from_source" /\ ~c.raised
IsGoodReport(c) == IsReport(c) /\ c.value.success
AllReports == SelectSeq(calls, IsReport)
GoodReports == SelectSeq(calls, IsGoodReport)

RECURSIVE SumSeq(_)
SumSeq(s) == IF s = <<>> THEN 0 ELSE Head(s) + SumSeq(Tail(s))

SumLoaded(cs) == SumSeq([i \in 1..Len(cs) |-> cs[i].value.memories_loaded])
SumCreated(cs) == SumSeq([i \in 1..Len(cs) |-> cs[i].value.connections_created])
SumFailed(cs) == SumSeq([i \in 1..Len(cs) |-> cs[i].value.memories_failed])
SumConnFailed(cs) == SumSeq([i \in 1..Len(cs) |-> cs[i].value.connections_failed])

SumDist(d) == d["L0"] + d["L1"] + d["L2"]

\* the units in the order of their validate_source calls
IsValidate(c) == c.op = "validate_source"
ValidateOrder ==
    LET vs == SelectSeq(calls, IsValidate) IN [i \in 1..Len(vs) |-> vs[i].unit]

(***************************************************************************)
(* C1: in directory mode, when exactly one unit of the batch fails (its    *)
(* load raises or reports success = false), the run still ends only after  *)
(* every unit was validated once and every valid unit was loaded, and      *)
(* exactly one unit-level failure is reported.                             *)
(***************************************************************************)
C1_PartialFailureIsolation ==
    (pc = "done" /\ sorted_files # <<>> /\ Cardinality(FailedUnits) = 1) =>
        /\ idx = Len(sorted_files)
        /\ \A u \in Units :
            /\ Cardinality(CallIndexes("validate_source", u)) = 1
            /\ PassedValidation(u) => LoadAttempted(u)
        /\ Cardinality(FailureLines) = 1

C1_Witness ==
    /\ Completed /\ ~dry_run
    /\ Len(sorted_files) = 3
    /\ FailedUnits = {sorted_files[1]}
    /\ \A u \in Units : PassedValidation(u)
    /\ Len(GoodReports) = 2

(***************************************************************************)
(* C2: with dry_run = true the loading of a unit is made of                *)
(* load_from_source and extract_connections only; the collaborator's       *)
(* load_memories_from_source and store_experience are never called and     *)
(* the store holds the same records after the call as before.              *)
(***************************************************************************)
C2_DryRunPurity ==
    (dry_run /\ pc # "idle") =>
        /\ store = store0
        /\ Cardinality(store) = Cardinality(store0)
        /\ \A i \in 1..Len(calls) :
            /\ calls[i].op \notin CollaboratorOps
            /\ calls[i].op \in {"get_supported_extensions", "validate_source",
                                "load_from_source", "extract_connections"}
            /\ (calls[i].op = "validate_source" /\ calls[i].value) =>
                    /\ i < Len(calls)
                    /\ calls[i + 1].op = "load_from_source"
                    /\ calls[i + 1].unit = calls[i].unit

C2_Witness ==
    /\ Completed /\ dry_run /\ ret
    /\ Cardinality({u \in Units : CallIndexes("extract_connections", u) # {}}) >= 2
    /\ SumDist(hierarchy_dist_combined) > 0

(***************************************************************************)
(* C3: a directory that is not a single repository unit, given without     *)
(* recursive, makes load_memories return False without any call on the     *)
(* loader or on the collaborator.                                          *)
(***************************************************************************)
C3_DirectoryNeedsRecursive ==
    (/\ pc # "idle"
     /\ loader_type \in {"markdown", "git"}
     /\ IsManyFileDirectory(source_path, loader_type)
     /\ ~recursive) =>
        /\ pc = "done"
        /\ ret = FALSE
        /\ calls = <<>>
        /\ store = store0

C3_Witness ==
    /\ pc = "done" /\ ~recursive /\ source_path = DirUnit
    /\ loader_type = "git" /\ GitEntry \notin tree
    /\ tree \cap FileIds # {}
    /\ ret = FALSE

(***************************************************************************)
(* C4 as stated: after every completed non-dry-run directory ingestion     *)
(* the combined hierarchy distribution sums to the records loaded,         *)
(* whatever the per-unit reports carry.                                    *)
(***************************************************************************)
C4_DistributionSumsAlways ==
    (Completed /\ ~dry_run) =>
        SumDist(hierarchy_dist_combined) = total_memories_loaded

\* a report with a distribution over L0, L1, L2 that sums to its records
WellFormedReport(r) ==
    /\ r.has_dist
    /\ DOMAIN r.hierarchy_distribution \subseteq DistKeys
    /\ SumDist(r.hierarchy_distribution) = r.memories_loaded

(***************************************************************************)
(* C4 amended: the combined hierarchy distribution sums to the records     *)
(* loaded when every successful per-unit report carries a                  *)
(* hierarchy_distribution whose keys are among L0, L1, L2 and whose counts *)
(* sum to its memories_loaded.                                             *)
(***************************************************************************)
C4_DistributionSumsWellFormed ==
    (/\ Completed /\ ~dry_run
     /\ \A i \in 1..Len(GoodReports) : WellFormedReport(GoodReports[i].value)) =>
        SumDist(hierarchy_dist_combined) = total_memories_loaded

C4_Witness ==
    /\ Completed /\ ~dry_run
    /\ Len(GoodReports) >= 2
    /\ \A i \in 1..Len(GoodReports) : WellFormedReport(GoodReports[i].value)
    /\ total_memories_loaded >= 3
    /\ hierarchy_dist_combined["L2"] > 0

(***************************************************************************)
(* C5: a many-unit ingestion returns True exactly when no unit raised or   *)
(* returned success = false; skipped files and failed counts inside a      *)
(* successful report do not make it False.                                 *)
(***************************************************************************)
C5_OverallSuccess ==
    Completed => (ret <=> FailedUnits = {})

C5_Witness ==
    /\ Completed /\ ~dry_run /\ ret
    /\ \E u \in Units : Skipped(u)
    /\ total_memories_failed > 0
    /\ total_connections_failed > 0

(***************************************************************************)
(* C6: a recursive directory ingestion in which no file has a supported    *)
(* suffix fails without processing a unit; one in which files matched but  *)
(* none passed validate_source completes and returns True with zero        *)
(* records loaded.                                                         *)
(***************************************************************************)
C6_EmptyBatchAsymmetry ==
    (pc = "done" /\ Walked) =>
        /\ markdown_files = <<>> =>
                /\ ret = FALSE
                /\ Len(calls) = 1
                /\ idx = 0
        /\ (markdown_files # <<>> /\ \A u \in Units : ~PassedValidation(u)) =>
                /\ ret = TRUE
                /\ total_memories_loaded = 0
                /\ store = store0

C6_Witness ==
    /\ Completed /\ ret
    /\ Len(sorted_files) >= 2
    /\ \A u \in Units : Skipped(u)

(***************************************************************************)
(* C7 as stated: a batch in which no unit passed validation makes          *)
(* load_memories return failure.                                           *)
(***************************************************************************)
C7_NoValidUnitFails ==
    (pc = "done" /\ Walked /\ \A u \in Units : ~PassedValidation(u)) =>
        ret = FALSE

(***************************************************************************)
(* C7 amended: a batch in which no unit passed validation makes            *)
(* load_memories return failure exactly when no file matched the loader's  *)
(* suffixes; when files matched and all were skipped it returns True.      *)
(***************************************************************************)
C7_NoMatchingFileFails ==
    (pc = "done" /\ Walked /\ \A u \in Units : ~PassedValidation(u)) =>
        (ret = FALSE <=> markdown_files = <<>>)

C7_Witness ==
    /\ pc = "done" /\ Walked
    /\ markdown_files = <<>>
    /\ tree \cap FileIds # {}
    /\ loader_type = "markdown"
    /\ ~ret

(***************************************************************************)
(* C8 as stated: the totals of a non-dry-run directory ingestion are the   *)
(* sums over every report the collaborator returned, reports with          *)
(* success = false included.                                               *)
(***************************************************************************)
C8_TotalsOverAllReports ==
    (Completed /\ ~dry_run) =>
        /\ total_memories_loaded = SumLoaded(AllReports)
        /\ total_connections_created = SumCreated(AllReports)
        /\ total_memories_failed = SumFailed(AllReports)
        /\ total_connections_failed = SumConnFailed(AllReports)

(***************************************************************************)
(* C8 amended: the totals are the sums over the reports with               *)
(* success = true; the counts of a report with success = false are not     *)
(* merged, though the records it committed remain in the store.            *)
(***************************************************************************)
C8_TotalsOverGoodReports ==
    (Completed /\ ~dry_run) =>
        /\ total_memories_loaded = SumLoaded(GoodReports)
        /\ total_connections_created = SumCreated(GoodReports)
        /\ total_memories_failed = SumFailed(GoodReports)
        /\ total_connections_failed = SumConnFailed(GoodReports)
        /\ \A i \in 1..Len(AllReports) :
            Committed(AllReports[i].unit, AllReports[i].value.memories_loaded)
                \subseteq store

C8_Witness ==
    /\ Completed /\ ~dry_run
    /\ Len(GoodReports) = 2
    /\ Len(AllReports) = 3
    /\ SumLoaded(AllReports) > SumLoaded(GoodReports)
    /\ total_memories_failed > 0
    /\ total_connections_created > 0

\* strictly increasing in the order of `key`
Increasing(seq, key(_)) ==
    \A i, j \in 1..Len(seq) : i < j => PathLess(key(seq[i]), key(seq[j]))

ResolvedPath(f) == Resolve(FilePath(f), linked)

(***************************************************************************)
(* C9 as stated: the files are validated and loaded in the order of their  *)
(* resolved paths.                                                         *)
(***************************************************************************)
C9_OrderedByResolvedPath ==
    Walked => Increasing(ValidateOrder, ResolvedPath)

(***************************************************************************)
(* C9 amended: the files are validated and loaded in one order whatever    *)
(* the order of the directory walk: increasing by the path the walk built  *)
(* (source directory joined with the relative path, symbolic links not     *)
(* resolved), compared component by component.                             *)
(***************************************************************************)
C9_OrderedByWalkedPath ==
    Walked =>
        /\ Increasing(ValidateOrder, FilePath)
        /\ Len(ValidateOrder) = idx
        /\ Range(ValidateOrder) \subseteq Range(markdown_files)
        /\ pc = "done" => Range(ValidateOrder) = Range(markdown_files)
        /\ \A i \in 1..Len(calls) :
            calls[i].op \in LoadOps =>
                /\ i > 1
                /\ calls[i - 1].unit = calls[i].unit

C9_Witness ==
    /\ Completed
    /\ Len(markdown_files) = 3
    /\ ~Increasing(markdown_files, FilePath)
    /\ linked
    /\ ~Increasing(ValidateOrder, ResolvedPath)

(***************************************************************************)
(* C10: a file whose validate_source returns false is never loaded         *)
(* (no load_from_source, extract_connections or load_memories_from_source  *)
(* for it), is reported as skipped and not as failed, leaves               *)
(* total_success as it was, and the loop goes on with the next file.       *)
(***************************************************************************)
C10_ValidationSkip ==
    (pc # "idle" /\ sorted_files # <<>>) =>
        /\ \A u \in Units : Skipped(u) =>
            /\ \A i \in 1..Len(calls) :
                    calls[i].unit = u => calls[i].op = "validate_source"
            /\ \A i \in 1..Len(out) :
                    out[i].unit = u => out[i].msg = "skip"
            /\ \E i \in 1..Len(out) : out[i] = Line("skip", u)
        /\ total_success <=> FailedUnits = {}
        /\ pc = "done" => \A u \in Units : Validated(u)

C10_Witness ==
    /\ Completed
    /\ Len(sorted_files) = 3
    /\ Skipped(sorted_files[1])
    /\ PassedValidation(sorted_files[2])
    /\ LoadAttempted(sorted_files[2])
    /\ Skipped(sorted_files[3])
    /\ ret

\* calls with this op, whatever the unit
OpIndexes(op) == {i \in 1..Len(calls) : calls[i].op = op}

(***************************************************************************)
(* C11: within one load_memories run no unit is validated twice and no     *)
(* unit's load_memories_from_source is issued twice, also when the call    *)
(* raised or reported success = false; when the loop has ended every unit  *)
(* was validated exactly once and a failed store call stands as that       *)
(* unit's one failure line.                                                *)
(***************************************************************************)
C11_NoRetry ==
    pc # "idle" =>
        /\ \A u \in {DirUnit} \cup FileIds :
            /\ Cardinality(CallIndexes("validate_source", u)) <= 1
            /\ Cardinality(CallIndexes("load_memories_from_source", u)) <= 1
        /\ Completed =>
            \A u \in Units :
                /\ Cardinality(CallIndexes("validate_source", u)) = 1
                /\ (~dry_run /\ UnitFailed(u)) =>
                    Cardinality({i \in FailureLines : out[i].unit = u}) = 1

C11_Witness ==
    /\ Completed /\ ~dry_run
    /\ Len(sorted_files) = 3
    /\ \E u, w \in Units :
        /\ u # w
        /\ \E i \in CallIndexes("load_memories_from_source", u) : calls[i].raised
        /\ \E i \in CallIndexes("load_memories_from_source", w) :
                ~calls[i].raised /\ ~calls[i].value.success

(***************************************************************************)
(* C12: a source that is a file, or a directory holding .git given with    *)
(* the git loader, is handled as one unit whatever `recursive` says: it is *)
(* the only unit validated and no directory walk is made.  Every other     *)
(* directory (no .git, or .git with the markdown loader) is handled as a   *)
(* directory of files: without `recursive` it fails before any call, with  *)
(* `recursive` the walk is made and only files of the directory are        *)
(* validated.                                                              *)
(***************************************************************************)
C12_UnitResolution ==
    (pc # "idle" /\ loader_type \in {"markdown", "git"}) =>
        IF source_path \in FileIds
           \/ (source_path = DirUnit /\ GitEntry \in tree /\ loader_type = "git")
        THEN /\ ~Walked
             /\ calls # <<>>
             /\ calls[1].op = "validate_source"
             /\ \A i \in 1..Len(calls) : calls[i].unit = source_path
        ELSE /\ ~recursive => (calls = <<>> /\ pc = "done" /\ ~ret)
             /\ recursive =>
                    /\ calls # <<>>
                    /\ calls[1].op = "get_supported_extensions"
                    /\ \A i \in 2..Len(calls) : calls[i].unit \in tree \cap FileIds

C12_Witness ==
    /\ pc = "done" /\ ret
    /\ source_path = DirUnit /\ loader_type = "git" /\ GitEntry \in tree
    /\ ~recursive
    /\ tree \cap FileIds # {}
    /\ OpIndexes("load_memories_from_source") # {}

(***************************************************************************)
(* A session: operations made one after the other on the same store        *)
(***************************************************************************)
\* the repositories a session works on: .git with and without a markdown file
SessionTrees == {{1, GitEntry}, {GitEntry}}

\* the run that just returned: a load of the whole repository by the git
\* loader in which every derived record was stored
StoredWholeRepository ==
    /\ loader_type = "git" /\ source_path = DirUnit /\ ~dry_run /\ ret
    /\ \E i \in 1..Len(calls) :
        /\ calls[i].op = "load_memories_from_source"
        /\ ~calls[i].raised
        /\ calls[i].value.memories_failed = 0

\* what is kept of an operation once it has returned
RunSummary ==
    [op |-> "load_memories", whole_repository |-> StoredWholeRepository,
     ret |-> ret, before |-> store0, after |-> store]

\* the operation has returned and the next one may be asked for
Again ==
    /\ pc = "done"
    /\ Len(history) < MaxRuns
    /\ history' = Append(history, RunSummary)
    /\ pc' = "idle"
    /\ store0' = store
    /\ source_path' = DirUnit
    /\ loader_type' = "markdown"
    /\ dry_run' = FALSE
    /\ recursive' = FALSE
    /\ markdown_files' = <<>>
    /\ sorted_files' = <<>>
    /\ idx' = 0
    /\ total_success' = TRUE
    /\ total_memories_loaded' = 0
    /\ total_connections_created' = 0
    /\ total_memories_failed' = 0
    /\ total_connections_failed' = 0
    /\ hierarchy_dist_combined' = ZeroDist
    /\ calls' = <<>>
    /\ out' = <<>>
    /\ ret' = FALSE
    /\ UNCHANGED <<tree, linked, store, held, reply, proc, collections,
                   clean>>

\* clearing empties the store
ClearMemoriesClears(memory_type, confirm) ==
    /\ pc = "idle"
    /\ Len(history) < MaxRuns
    /\ store' = IF confirm THEN {} ELSE store
    /\ history' = Append(history,
            [op |-> "clear_memories", whole_repository |-> FALSE,
             ret |-> confirm, before |-> store, after |-> store'])
    /\ store0' = store'
    /\ out' = Append(out, Line("cleared", DirUnit))
    /\ UNCHANGED <<proc, collections, clean>>
    /\ UNCHANGED <<tree, linked, held, reply, pc, source_path, loader_type,
                   dry_run, recursive, markdown_files, sorted_files, idx,
                   Totals, calls, ret>>

\* clear_memories: a placeholder that prints and returns False
ClearMemories(memory_type, confirm) ==
    /\ pc = "idle"
    /\ Len(history) < MaxRuns
    /\ history' = Append(history,
            [op |-> "clear_memories", whole_repository |-> FALSE,
             ret |-> FALSE, before |-> store, after |-> store])
    /\ out' = Append(out, Line("not_implemented", DirUnit))
    /\ UNCHANGED <<proc, collections, clean>>
    /\ UNCHANGED <<tree, linked, held, reply, store, store0, pc, source_path,
                   loader_type, dry_run, recursive, markdown_files,
                   sorted_files, idx, Totals, calls, ret>>

\* load_git_patterns: load_memories with the git loader; `refresh` is ignored
\* and `recursive` keeps its default
LoadGitPatterns(repo_path, dr, refresh) ==
    \/ LoadDirNotRecursive(repo_path, "git", dr, FALSE)
    \/ LoadSingleInvalid(repo_path, "git", dr, FALSE)
    \/ LoadSingleDryRun(repo_path, "git", dr, FALSE)
    \/ LoadSingleStore(repo_path, "git", dr, FALSE)

SessionInit ==
    /\ Init
    /\ tree \in SessionTrees
    /\ ~linked

SessionNext ==
    \/ Next
    \/ Again
    \/ \E memory_type \in {"all", "episodic"}, confirm \in BOOLEAN :
            ClearMemories(memory_type, confirm)
    \/ \E repo_path \in {DirUnit} \cup FileIds, dr \in BOOLEAN,
          refresh \in BOOLEAN :
            LoadGitPatterns(repo_path, dr, refresh)

SpecSession == SessionInit /\ [][SessionNext]_vars

\* the operations of the session so far, the one that just returned included
Runs == IF pc = "done" THEN Append(history, RunSummary) ELSE history

(***************************************************************************)
(* C13: no operation of the ingestion path removes a record: whatever the  *)
(* sequence of load_memories, load_git_patterns and clear_memories calls,  *)
(* dry or not, failed or not, the store after each step holds every record *)
(* it held before, and clear_memories leaves the store as it was and       *)
(* returns False.                                                          *)
(***************************************************************************)
C13_NeverDeletes ==
    /\ InitialStore \subseteq store
    /\ store0 \subseteq store
    /\ \A i \in 1..Len(history) :
        /\ history[i].before \subseteq history[i].after
        /\ history[i].after \subseteq store
        /\ i > 1 => history[i - 1].after = history[i].before
        /\ history[i].op = "clear_memories" =>
            (history[i].after = history[i].before /\ ~history[i].ret)

C13_Witness ==
    /\ pc = "done" /\ ~ret
    /\ Len(history) = 2
    /\ history[1].op = "load_memories" /\ history[1].ret
    /\ history[1].before # history[1].after
    /\ history[2].op = "clear_memories"
    /\ store # history[2].after

MaxLimit == 2                   \* the largest `limit` a caller asks for

\* max_results of the summary query of search_git_patterns
SummaryMaxResults == 1000

RECURSIVE LStrip(_)
LStrip(s) == IF s # <<>> /\ Head(s) = " " THEN LStrip(Tail(s)) ELSE s

RECURSIVE RStrip(_)
RStrip(s) ==
    IF s # <<>> /\ s[Len(s)] = " " THEN RStrip(SubSeq(s, 1, Len(s) - 1)) ELSE s

\* str.strip()
Strip(s) == RStrip(LStrip(s))

\* str.startswith()
StartsWith(s, prefix) ==
    Len(s) >= Len(prefix) /\ SubSeq(s, 1, Len(prefix)) = prefix

GitPrefix == <<"git", "::">>

GitPatternQuery == <<"git", " ", "pattern">>

PatternTypes == <<"cochange", "hotspot", "solution">>

\* f"{x:.2f}": thousandths to hundredths (no value used lies on a tie)
Fmt2(x) == (x + 5) \div 10

\* a CognitiveMemory; a metadata key that is absent has its flag FALSE
Memory(id, strength, has_sim, sim, has_pt, pt) ==
    [id |-> id, strength |-> strength,
     metadata |-> [has_similarity_score |-> has_sim, similarity_score |-> sim,
                   has_pattern_type |-> has_pt, pattern_type |-> pt]]

\* a result item that is the record itself (it has no attribute `memory`;
\* the field holds the record so that all items have one shape)
Regular(m) ==
    [wraps |-> FALSE, memory |-> m, novelty_score |-> 0,
     connection_potential |-> 0, bridge_score |-> 0]

\* a BridgeMemory: a record wrapped with its three scores
Bridge(m, novelty, connection, score) ==
    [wraps |-> TRUE, memory |-> m, novelty_score |-> novelty,
     connection_potential |-> connection, bridge_score |-> score]

DocZero  == Memory(<<"doc", "::", "a">>, 900, TRUE, 0, FALSE, "")
DocPlain == Memory(<<"doc", "::", "b">>, 656, FALSE, 0, FALSE, "")
DocSolution == Memory(<<"doc", "::", "s">>, 400, TRUE, 301, TRUE, "solution")
GitCochange1 == Memory(<<"git", "::", "c1">>, 500, TRUE, 812, TRUE, "cochange")
GitCochange2 == Memory(<<"git", "::", "c2">>, 500, TRUE, 433, TRUE, "cochange")
GitHotspot == Memory(<<"git", "::", "h">>, 950, FALSE, 0, TRUE, "hotspot")
GitOther == Memory(<<"git", "::", "o">>, 100, FALSE, 0, TRUE, "commit")
GitUntyped == Memory(<<"git", "::", "u">>, 100, FALSE, 0, FALSE, "")

\* what the collaborator holds for a query, best first, bucket by bucket:
\* core and peripheral hold records (the assertion of line 157), the bridge
\* bucket wrapped records or records
MixedHeld ==
    [b \in Range(AllTypes) |->
        CASE b = "core" ->
                <<Regular(GitCochange1), Regular(DocZero), Regular(GitHotspot)>>
          [] b = "peripheral" ->
                <<Regular(GitCochange2), Regular(DocSolution),
                  Regular(GitOther), Regular(GitUntyped)>>
          [] OTHER ->
                <<Bridge(DocPlain, 804, 600, 750), Regular(DocPlain),
                  Bridge(GitHotspot, 100, 300, 999)>>]

\* more git records than the summary query asks for
ManyHeld ==
    [b \in Range(AllTypes) |->
        CASE b = "core" ->
                [i \in 1..(SummaryMaxResults + 1) |-> Regular(GitCochange1)]
          [] b = "peripheral" -> <<Regular(GitHotspot)>>
          [] OTHER -> <<>>]

HeldChoices == {NothingHeld, MixedHeld, ManyHeld}

Queries == {<<>>, <<" ">>, <<"auth">>, <<" ", "auth">>}

\* the `types` argument: left out (None) or a list
TypesArgs ==
    {[given |-> FALSE, list |-> <<>>], [given |-> TRUE, list |-> <<>>],
     [given |-> TRUE, list |-> <<"core">>],
     [given |-> TRUE, list |-> <<"bridge", "core">>],
     [given |-> TRUE, list |-> <<"peripheral", "bridge">>]}

\* the `pattern_type` argument; "" stands for None and for the empty string
PatternTypeArgs == {"", "cochange", "hotspot"}

Take(s, n) == SubSeq(s, 1, IF n < Len(s) THEN n ELSE Len(s))

\* the collaborator's answer: the buckets asked for, at most max_results each
Answer(types, max_results) ==
    [i \in 1..Len(types) |->
        [bucket |-> types[i], items |-> Take(held[types[i]], max_results)]]

\* sum(len(memories) for memories in results.values())
Total(results) == SumSeq([i \in 1..Len(results) |-> Len(results[i].items)])

\* types = types or [...]
RetrieveTypesOrDefault(types) ==
    IF types.given /\ types.list # <<>> THEN types.list ELSE AllTypes

\* if types is None: types = ["core", "peripheral", "bridge"]
RetrieveTypes(types) == IF types.given THEN types.list ELSE AllTypes

\* score = similarity_score or strength
ScoreIfNonZero(memory) ==
    IF memory.metadata.has_similarity_score
            /\ memory.metadata.similarity_score # 0
    THEN memory.metadata.similarity_score
    ELSE memory.strength

\* memory.metadata.get("similarity_score", memory.strength)
Score(memory) ==
    IF memory.metadata.has_similarity_score
    THEN memory.metadata.similarity_score
    ELSE memory.strength

\* the bridge score shown is the mean of the two other scores
ShowItemRecomputed(memory_type, i, memory_item) ==
    IF memory_type = "bridge" /\ memory_item.wraps
    THEN [bucket |-> memory_type, i |-> i, label |-> "bridge",
          id |-> memory_item.memory.id,
          scores |-> <<Fmt2(memory_item.novelty_score),
                       Fmt2(memory_item.connection_potential),
                       Fmt2((memory_item.novelty_score
                             + memory_item.connection_potential) \div 2)>>]
    ELSE [bucket |-> memory_type, i |-> i, label |-> "regular",
          id |-> memory_item.memory.id,
          scores |-> <<Fmt2(Score(memory_item.memory))>>]

\* the "ID: ..." line printed for the i-th item of a bucket
ShowItem(memory_type, i, memory_item) ==
    IF memory_type = "bridge" /\ memory_item.wraps
    THEN [bucket |-> memory_type, i |-> i, label |-> "bridge",
          id |-> memory_item.memory.id,
          scores |-> <<Fmt2(memory_item.novelty_score),
                       Fmt2(memory_item.connection_potential),
                       Fmt2(memory_item.bridge_score)>>]
    ELSE [bucket |-> memory_type, i |-> i, label |-> "regular",
          id |-> memory_item.memory.id,
          scores |-> <<Fmt2(Score(memory_item.memory))>>]

\* the items of a bucket are shown last first
ShowBucketReversed(b) ==
    [i \in 1..Len(b.items) |->
        ShowItem(b.bucket, i, b.items[Len(b.items) + 1 - i])]

\* for i, memory_item in enumerate(memories, 1)
ShowBucket(b) ==
    [i \in 1..Len(b.items) |-> ShowItem(b.bucket, i, b.items[i])]

\* for memory_type, memories in results.items()
RECURSIVE ShowBuckets(_)
ShowBuckets(results) ==
    IF results = <<>> THEN <<>>
    ELSE ShowBucket(Head(results)) \o ShowBuckets(Tail(results))

\* one search asked of the collaborator, with what it answered
Search(query, types, max_results, raised) ==
    Call("retrieve_memories", DirUnit, raised,
         [query |-> query, types |-> types, max_results |-> max_results,
          results |-> IF raised THEN <<>> ELSE Answer(types, max_results)])

\* retrieve_memories: the searches it makes, what it returns (`none` for
\* None), the item lines and the messages it prints
Retrieval(query, types, limit, display, raised) ==
    IF Strip(query) = <<>>
    THEN [calls |-> <<>>, none |-> TRUE, results |-> <<>>, shown |-> <<>>,
          lines |-> IF display THEN <<Line("empty_query", DirUnit)>>
                    ELSE <<>>]
    ELSE LET search == Search(query, RetrieveTypes(types), limit, raised)
             results == search.value.results
         IN  IF raised
             THEN [calls |-> <<search>>, none |-> TRUE, results |-> <<>>,
                   shown |-> <<>>,
                   lines |-> IF display
                             THEN <<Line("error_retrieving", DirUnit)>>
                             ELSE <<>>]
             ELSE [calls |-> <<search>>, none |-> FALSE, results |-> results,
                   shown |-> IF display THEN ShowBuckets(results) ELSE <<>>,
                   lines |-> IF ~display THEN <<>>
                             ELSE IF Total(results) = 0
                             THEN <<Line("no_memories", DirUnit)>>
                             ELSE <<Line("retrieved", DirUnit)>>]

NoCounts == [t \in Range(PatternTypes) |-> 0]

Loading == <<tree, linked, store, store0, source_path, loader_type, dry_run,
             recursive, markdown_files, sorted_files, idx, Totals, ret,
             history, proc, collections, clean>>

RetrieveMemories(query, types, limit, display, raised) ==
    /\ pc = "idle"
    /\ raised => Strip(query) # <<>>
    /\ LET r == Retrieval(query, types, limit, display, raised)
       IN  /\ calls' = calls \o r.calls
           /\ out' = out \o r.lines
           /\ reply' = [op |-> "retrieve_memories", query |-> query,
                        types |-> types, limit |-> limit,
                        display |-> display, pattern_type |-> "",
                        none |-> r.none, results |-> r.results,
                        shown |-> r.shown, success |-> ~r.none,
                        summary |-> FALSE, total_patterns |-> 0,
                        pattern_counts |-> NoCounts]
    /\ pc' = "done"
    /\ UNCHANGED <<Loading, held>>

\* what one record adds to the counts, whatever its id
TallyItemAnyId(memory, pattern_counts) ==
    LET actual_memory == memory.memory
        pattern_type_found ==
            IF actual_memory.metadata.has_pattern_type
            THEN actual_memory.metadata.pattern_type ELSE "unknown"
    IN  IF pattern_type_found \in DOMAIN pattern_counts
        THEN [pattern_counts EXCEPT ![pattern_type_found] = @ + 1]
        ELSE pattern_counts

\* if actual_memory.id.startswith("git::"): ...
\*     pattern_counts[pattern_type_found] += 1
TallyItem(memory, pattern_counts) ==
    LET actual_memory == memory.memory
        pattern_type_found ==
            IF actual_memory.metadata.has_pattern_type
            THEN actual_memory.metadata.pattern_type ELSE "unknown"
    IN  IF /\ StartsWith(actual_memory.id, GitPrefix)
           /\ pattern_type_found \in DOMAIN pattern_counts
        THEN [pattern_counts EXCEPT ![pattern_type_found] = @ + 1]
        ELSE pattern_counts

AddCounts(c, d) == [t \in DOMAIN c |-> c[t] + d[t]]

\* for memory in memories: what the items lo..hi add to the counts
RECURSIVE TallyItems(_, _, _)
TallyItems(memories, lo, hi) ==
    IF lo > hi THEN NoCounts
    ELSE IF lo = hi THEN TallyItem(memories[lo], NoCounts)
    ELSE LET mid == (lo + hi) \div 2
         IN  AddCounts(TallyItems(memories, lo, mid),
                       TallyItems(memories, mid + 1, hi))

\* for _memory_type, memories in results.items()
RECURSIVE TallyBuckets(_)
TallyBuckets(results) ==
    IF results = <<>> THEN NoCounts
    ELSE AddCounts(TallyItems(Head(results).items, 1,
                              Len(Head(results).items)),
                   TallyBuckets(Tail(results)))

\* retrieve_memories(query="git pattern", types=[...], max_results=1000)
SummarySearch(raised) ==
    Search(GitPatternQuery, <<"core", "peripheral">>, SummaryMaxResults,
           raised)

\* f"git pattern {query}", with the pattern type in front when there is one
SearchQuery(query, pattern_type) ==
    (IF pattern_type # "" THEN <<pattern_type, " ">> ELSE <<>>)
    \o (IF Strip(query) # <<>> THEN GitPatternQuery \o <<" ">> \o query
        ELSE GitPatternQuery)

\* search_git_patterns: the searches it makes, the messages it prints and
\* what it leaves as its reply
GitSearch(query, pattern_type, limit, raised, summary_raised) ==
    LET first == Retrieval(SearchQuery(query, pattern_type),
                           [given |-> TRUE, list |-> <<"core", "peripheral">>],
                           limit * 2, TRUE, raised)
        \* a dict is true when it has a key, None is false
        success == ~first.none /\ first.results # <<>>
        summary == limit = 0 /\ success
        second == SummarySearch(summary_raised)
        results == second.value.results
    IN  [asked |-> summary,
         calls |-> first.calls \o (IF summary THEN <<second>> ELSE <<>>),
         lines |-> first.lines
                   \o (IF ~summary THEN <<>>
                       ELSE IF summary_raised
                       THEN <<Line("error_searching", DirUnit)>>
                       ELSE <<Line("summary", DirUnit)>>),
         reply |-> [op |-> "search_git_patterns", query |-> query,
                    types |-> [given |-> TRUE,
                               list |-> <<"core", "peripheral">>],
                    limit |-> limit, display |-> TRUE,
                    pattern_type |-> pattern_type,
                    none |-> first.none, results |-> first.results,
                    shown |-> first.shown,
                    success |-> success /\ ~(summary /\ summary_raised),
                    summary |-> summary /\ ~summary_raised,
                    total_patterns |->
                        IF summary /\ ~summary_raised
                        THEN Total(results) ELSE 0,
                    pattern_counts |->
                        IF summary /\ ~summary_raised
                        THEN TallyBuckets(results)
                        ELSE NoCounts]]

SearchGitPatterns(query, pattern_type, limit, raised, summary_raised) ==
    /\ pc = "idle"
    /\ LET g == GitSearch(query, pattern_type, limit, raised, summary_raised)
       IN  /\ summary_raised => g.asked
           /\ calls' = calls \o g.calls
           /\ out' = out \o g.lines
           /\ reply' = g.reply
    /\ pc' = "done"
    /\ UNCHANGED <<Loading, held>>

RetrieveInit ==
    /\ tree = {}
    /\ linked = FALSE
    /\ store = InitialStore
    /\ store0 = store
    /\ pc = "idle"
    /\ source_path = DirUnit
    /\ loader_type = "markdown"
    /\ dry_run = FALSE
    /\ recursive = FALSE
    /\ markdown_files = <<>>
    /\ sorted_files = <<>>
    /\ idx = 0
    /\ total_success = TRUE
    /\ total_memories_loaded = 0
    /\ total_connections_created = 0
    /\ total_memories_failed = 0
    /\ total_connections_failed = 0
    /\ hierarchy_dist_combined = ZeroDist
    /\ calls = <<>>
    /\ out = <<>>
    /\ ret = FALSE
    /\ history = <<>>
    /\ held \in HeldChoices
    /\ reply = NoReply
    /\ proc = NoProc
    /\ collections = {}
    /\ clean = NoClean

RetrieveNext ==
    \/ \E query \in Queries, types \in TypesArgs, limit \in 0..MaxLimit,
          display \in BOOLEAN, raised \in BOOLEAN :
            RetrieveMemories(query, types, limit, display, raised)
    \/ \E query \in Queries, pattern_type \in PatternTypeArgs,
          limit \in 0..MaxLimit, raised \in BOOLEAN,
          summary_raised \in BOOLEAN :
            SearchGitPatterns(query, pattern_type, limit, raised,
                              summary_raised)

SpecRetrieve == RetrieveInit /\ [][RetrieveNext]_vars

(***************************************************************************)
(* What a reply says                                                       *)
(***************************************************************************)
\* the places of a result: bucket k, item i
Places(results) ==
    {p \in (1..Len(results)) \X (1..SummaryMaxResults + 1) :
        p[2] <= Len(results[p[1]].items)}

\* the place a shown line speaks of
PlaceOf(results, line) ==
    <<CHOOSE k \in 1..Len(results) : results[k].bucket = line.bucket, line.i>>

PlaceBefore(p, q) == p[1] < q[1] \/ (p[1] = q[1] /\ p[2] < q[2])

ItemAt(results, p) == results[p[1]].items[p[2]]

Retrieved == reply.op = "retrieve_memories"

Searched == reply.op = "search_git_patterns"

\* the git records of a pattern type among the places of a result
GitRecords(results, t) ==
    {p \in Places(results) :
        /\ StartsWith(ItemAt(results, p).memory.id, <<"git", "::">>)
        /\ ItemAt(results, p).memory.metadata.has_pattern_type
        /\ ItemAt(results, p).memory.metadata.pattern_type = t}

(***************************************************************************)
(* C15: retrieve_memories with a query that is not blank asks the          *)
(* collaborator for exactly one search, with the query as given, with      *)
(* max_results = limit, and with all three buckets when the caller left    *)
(* `types` out and the caller's list (empty or not) otherwise.             *)
(***************************************************************************)
C15_OneSearch ==
    (Retrieved /\ Strip(reply.query) # <<>>) =>
        /\ Len(calls) = 1
        /\ calls[1].op = "retrieve_memories"
        /\ calls[1].value.query = reply.query
        /\ calls[1].value.max_results = reply.limit
        /\ calls[1].value.types =
                IF reply.types.given THEN reply.types.list
                ELSE <<"core", "peripheral", "bridge">>

C15_Witness ==
    /\ Retrieved
    /\ reply.query = <<" ", "auth">>
    /\ reply.types.given /\ reply.types.list = <<>>
    /\ Len(calls) = 1
    /\ calls[1].value.types = <<>>
    /\ reply.limit = MaxLimit

(***************************************************************************)
(* C16: whenever the collaborator answers, retrieve_memories returns the   *)
(* answer itself, the same buckets with the same items in the same order,  *)
(* with display on and with display off; with display on there is one      *)
(* line for each item, in the order of the buckets and of the items in     *)
(* them.                                                                   *)
(***************************************************************************)
C16_SameBucketsSameOrder ==
    (Retrieved /\ calls # <<>> /\ ~calls[1].raised) =>
        /\ ~reply.none
        /\ reply.results = calls[1].value.results
        /\ ~reply.display => reply.shown = <<>>
        /\ reply.display =>
            /\ Len(reply.shown) = Cardinality(Places(reply.results))
            /\ \A n \in 1..Len(reply.shown) :
                /\ PlaceOf(reply.results, reply.shown[n])
                        \in Places(reply.results)
                /\ reply.shown[n].id =
                        ItemAt(reply.results,
                               PlaceOf(reply.results, reply.shown[n])).memory.id
            /\ \A n, m \in 1..Len(reply.shown) :
                n < m => PlaceBefore(PlaceOf(reply.results, reply.shown[n]),
                                     PlaceOf(reply.results, reply.shown[m]))

C16_Witness ==
    /\ Retrieved /\ reply.display /\ ~reply.none
    /\ held = MixedHeld
    /\ reply.limit = 2
    /\ Len(reply.results) = 3
    /\ Len(reply.shown) = 6
    /\ reply.shown[1].id = <<"git", "::", "c1">>
    /\ reply.shown[2].id = <<"doc", "::", "a">>

(***************************************************************************)
(* C17: an item is shown as a bridge item exactly when it is in the bridge *)
(* bucket and wraps a record; for every other item the relevance shown is  *)
(* metadata["similarity_score"] when that key is present, be it zero, and  *)
(* the record's strength otherwise (to two decimals).                      *)
(***************************************************************************)
C17_RegularRelevance ==
    (Retrieved \/ Searched) =>
        \A n \in 1..Len(reply.shown) :
            LET line == reply.shown[n]
                item == ItemAt(reply.results, PlaceOf(reply.results, line))
            IN  /\ line.label = "bridge" <=>
                        (line.bucket = "bridge" /\ item.wraps)
                /\ line.label # "bridge" =>
                    line.scores =
                        <<Fmt2(IF item.memory.metadata.has_similarity_score
                               THEN item.memory.metadata.similarity_score
                               ELSE item.memory.strength)>>

C17_Witness ==
    /\ Retrieved
    /\ \E n, m \in 1..Len(reply.shown) :
        /\ reply.shown[n].bucket = "core"
        /\ reply.shown[n].id = <<"doc", "::", "a">>
        /\ reply.shown[n].scores = <<0>>
        /\ reply.shown[m].bucket = "bridge"
        /\ reply.shown[m].label = "regular"
        /\ reply.shown[m].scores = <<66>>

(***************************************************************************)
(* C18: for every bridge item of a result, the item returned is the        *)
(* collaborator's, and the line shown for it carries the id of the record  *)
(* it wraps and its novelty score, its connection potential and its bridge *)
(* score, each one its own value to two decimals, none computed from the   *)
(* others.                                                                 *)
(***************************************************************************)
C18_BridgeScoresUnaltered ==
    (Retrieved /\ ~reply.none) =>
        /\ \A p \in Places(reply.results) :
            ItemAt(reply.results, p) = ItemAt(calls[1].value.results, p)
        /\ \A n \in 1..Len(reply.shown) :
            LET line == reply.shown[n]
                item == ItemAt(reply.results, PlaceOf(reply.results, line))
            IN  (line.bucket = "bridge" /\ item.wraps) =>
                    /\ line.id = item.memory.id
                    /\ line.scores = <<Fmt2(item.novelty_score),
                                       Fmt2(item.connection_potential),
                                       Fmt2(item.bridge_score)>>

C18_Witness ==
    /\ Retrieved
    /\ \E n \in 1..Len(reply.shown) :
        /\ reply.shown[n].label = "bridge"
        /\ reply.shown[n].id = <<"doc", "::", "b">>
        /\ reply.shown[n].scores = <<80, 60, 75>>

(***************************************************************************)
(* C19: when search_git_patterns is asked with limit = 0 and shows the     *)
(* summary, the count it reports for each of cochange, hotspot and         *)
(* solution is the number of records fetched by the summary search whose   *)
(* id starts with "git::" and whose metadata pattern type is that type;    *)
(* records without the prefix or of another type add to no count.          *)
(***************************************************************************)
C19_PatternCounts ==
    (Searched /\ reply.summary) =>
        /\ reply.limit = 0
        /\ Len(calls) = 2
        /\ DOMAIN reply.pattern_counts = {"cochange", "hotspot", "solution"}
        /\ \A t \in {"cochange", "hotspot", "solution"} :
            reply.pattern_counts[t] =
                Cardinality(GitRecords(calls[2].value.results, t))

C19_Witness ==
    /\ Searched /\ reply.summary
    /\ held = MixedHeld
    /\ reply.pattern_counts["cochange"] = 2
    /\ reply.pattern_counts["hotspot"] = 1
    /\ reply.pattern_counts["solution"] = 0
    /\ reply.total_patterns = 7

\* the records the collaborator holds in the two buckets searched
AllHeld == <<[bucket |-> "core", items |-> held["core"]],
             [bucket |-> "peripheral", items |-> held["peripheral"]]>>

(***************************************************************************)
(* C20: when asked only for a count (limit = 0), the pattern search makes  *)
(* a second search that is unlimited: the count reported for each pattern  *)
(* type is the number of git records of that type among all the records    *)
(* the collaborator holds in the buckets searched, whatever their number.  *)
(***************************************************************************)
C20_TallyCoversStore ==
    (Searched /\ reply.summary) =>
        \A t \in {"cochange", "hotspot", "solution"} :
            reply.pattern_counts[t] = Cardinality(GitRecords(AllHeld, t))

(***************************************************************************)
(* The other operations of CognitiveCLI                                    *)
(***************************************************************************)
\* the unit under which the ids of stored experiences are counted
ExperienceUnit == 6

\* the id the collaborator gives to the next experience it stores in S
ExperienceId(S) ==
    <<ExperienceUnit, 1 + Cardinality({r \in S : r[1] = ExperienceUnit})>>

NewExperience == ExperienceId(store)

\* what the collaborator answers store_experience with: an id, an empty id,
\* or it raises
StoreAnswers == {"id", "empty", "raised"}

\* --context: absent (""), a JSON object, or text that is not JSON
ContextJsonArgs == {"", "valid", "invalid"}

\* the reply of an operation that is not a retrieval; `success` says that
\* the value returned is a true one (True, a dict with keys)
OpReply(op, arg, success, none) ==
    [op |-> op, query |-> arg, success |-> success, none |-> none]

\* store_experience: the calls it makes, what it prints and returns
StoreOutcome(text, context, context_json, answer) ==
    IF Strip(text) = <<>>
    THEN [calls |-> <<>>, lines |-> <<Line("empty_text", DirUnit)>>,
          ret |-> FALSE]
    ELSE IF context_json # "" /\ ~context /\ context_json = "invalid"
    THEN [calls |-> <<>>, lines |-> <<Line("invalid_json", DirUnit)>>,
          ret |-> FALSE]
    ELSE [calls |-> <<Call("store_experience", DirUnit, answer = "raised",
                           [text |-> text,
                            context |-> context \/ context_json # "",
                            id |-> answer = "id"])>>,
          lines |-> <<Line(CASE answer = "id" -> "stored"
                             [] answer = "empty" -> "store_failed"
                             [] OTHER -> "error_storing", DirUnit)>>,
          ret |-> answer = "id"]

\* the text is handed to the collaborator before it is looked at
StoreExperienceUnchecked(text, context, context_json, answer) ==
    /\ pc = "idle"
    /\ LET call == Call("store_experience", DirUnit, answer = "raised",
                        [text |-> text, context |-> context,
                         id |-> answer = "id"])
       IN  /\ calls' = Append(calls, call)
           /\ out' = Append(out, Line("stored", DirUnit))
           /\ store' = IF answer = "id" THEN store \cup {NewExperience}
                       ELSE store
           /\ reply' = OpReply("store_experience", text, answer = "id",
                               FALSE)
    /\ pc' = "done"
    /\ UNCHANGED <<tree, linked, store0, source_path, loader_type, dry_run,
                   recursive, markdown_files, sorted_files, idx, Totals, ret,
                   history, proc, collections, clean, held>>

StoreExperience(text, context, context_json, answer) ==
    /\ pc = "idle"
    /\ LET o == StoreOutcome(text, context, context_json, answer)
       IN  /\ answer # "id" => o.calls # <<>>
           /\ calls' = calls \o o.calls
           /\ out' = out \o o.lines
           /\ store' = IF o.ret THEN store \cup {NewExperience} ELSE store
           /\ reply' = OpReply("store_experience", text, o.ret, FALSE)
    /\ pc' = "done"
    /\ UNCHANGED <<tree, linked, store0, source_path, loader_type, dry_run,
                   recursive, markdown_files, sorted_files, idx, Totals, ret,
                   history, proc, collections, clean, held>>

\* what get_memory_stats answers with: a dict without keys, a dict with
\* memory_counts, or it raises
StatsAnswers == {"empty", "counts", "raised"}

\* show_status: returns the stats, None when the collaborator raised
StatusOutcome(detailed, display, answer) ==
    [calls |-> <<Call("get_memory_stats", DirUnit, answer = "raised",
                      [detailed |-> detailed, stats |-> answer])>>,
     lines |-> IF ~display THEN <<>>
               ELSE IF answer = "raised"
               THEN <<Line("error_status", DirUnit)>>
               ELSE <<Line("status", DirUnit)>>,
     none |-> answer = "raised",
     \* bool(stats)
     truthy |-> answer = "counts"]

ShowStatus(detailed, display, answer) ==
    /\ pc = "idle"
    /\ LET o == StatusOutcome(detailed, display, answer)
       IN  /\ calls' = calls \o o.calls
           /\ out' = out \o o.lines
           /\ reply' = OpReply("show_status", <<>>, o.truthy, o.none)
    /\ pc' = "done"
    /\ UNCHANGED <<Loading, held>>

\* consolidate_memories: dry_run only adds a line, the consolidation runs
ConsolidateOutcome(dr, raised) ==
    [calls |-> <<Call("consolidate_memories", DirUnit, raised, dr)>>,
     lines |-> (IF dr THEN <<Line("dry_run", DirUnit)>> ELSE <<>>)
               \o <<Line(IF raised THEN "error_consolidation"
                         ELSE "consolidated", DirUnit)>>,
     ret |-> ~raised]

ConsolidateMemories(dr, raised) ==
    /\ pc = "idle"
    /\ LET o == ConsolidateOutcome(dr, raised)
       IN  /\ calls' = calls \o o.calls
           /\ out' = out \o o.lines
           /\ reply' = OpReply("consolidate_memories", <<>>, o.ret, FALSE)
    /\ pc' = "done"
    /\ UNCHANGED <<Loading, held>>

\* the repo_path argument: left out (""), a path that does not exist, or
\* the source directory
RepoPathArgs == {"", "missing", "repo"}

\* show_git_status: with a path, the result of the count-only pattern
\* search; without one, the result of show_status, the pattern search being
\* made for its output only
GitStatusOutcome(repo_path, answer, raised, summary_raised) ==
    LET g == GitSearch(<<>>, "", 0, raised, summary_raised)
        st == StatusOutcome(FALSE, TRUE, answer)
    IN  IF repo_path = "missing"
        THEN [calls |-> <<>>, lines |-> <<Line("no_such_path", DirUnit)>>,
              ret |-> FALSE, searched |-> FALSE, asked |-> FALSE]
        ELSE IF repo_path = "repo" /\ GitEntry \notin tree
        THEN [calls |-> <<>>, lines |-> <<Line("not_a_repo", DirUnit)>>,
              ret |-> FALSE, searched |-> FALSE, asked |-> FALSE]
        ELSE IF repo_path = "repo"
        THEN [calls |-> g.calls, lines |-> g.lines, ret |-> g.reply.success,
              searched |-> TRUE, asked |-> g.asked]
        ELSE IF st.truthy
        THEN [calls |-> st.calls \o g.calls, lines |-> st.lines \o g.lines,
              ret |-> TRUE, searched |-> TRUE, asked |-> g.asked]
        ELSE [calls |-> st.calls, lines |-> st.lines, ret |-> FALSE,
              searched |-> FALSE, asked |-> FALSE]

ShowGitStatus(repo_path, answer, raised, summary_raised) ==
    /\ pc = "idle"
    /\ LET o == GitStatusOutcome(repo_path, answer, raised, summary_raised)
       IN  /\ raised => o.searched
           /\ summary_raised => o.asked
           /\ repo_path # "" => answer = "counts"
           /\ calls' = calls \o o.calls
           /\ out' = out \o o.lines
           /\ reply' = OpReply("show_git_status", <<repo_path>>, o.ret, FALSE)
    /\ pc' = "done"
    /\ UNCHANGED <<Loading, held>>

OpsInit ==
    /\ tree \in {{}, {GitEntry}}
    /\ linked = FALSE
    /\ store = InitialStore
    /\ store0 = store
    /\ pc = "idle"
    /\ source_path = DirUnit
    /\ loader_type = "markdown"
    /\ dry_run = FALSE
    /\ recursive = FALSE
    /\ markdown_files = <<>>
    /\ sorted_files = <<>>
    /\ idx = 0
    /\ total_success = TRUE
    /\ total_memories_loaded = 0
    /\ total_connections_created = 0
    /\ total_memories_failed = 0
    /\ total_connections_failed = 0
    /\ hierarchy_dist_combined = ZeroDist
    /\ calls = <<>>
    /\ out = <<>>
    /\ ret = FALSE
    /\ history = <<>>
    /\ held \in {NothingHeld, MixedHeld}
    /\ reply = NoReply
    /\ proc = NoProc
    /\ collections = {}
    /\ clean = NoClean

OpsNext ==
    \/ RetrieveNext
    \/ \E text \in Queries, context \in BOOLEAN,
          context_json \in ContextJsonArgs, answer \in StoreAnswers :
            StoreExperience(text, context, context_json, answer)
    \/ \E detailed \in BOOLEAN, display \in BOOLEAN, answer \in StatsAnswers :
            ShowStatus(detailed, display, answer)
    \/ \E dr \in BOOLEAN, raised \in BOOLEAN : ConsolidateMemories(dr, raised)
    \/ \E repo_path \in RepoPathArgs, answer \in StatsAnswers,
          raised \in BOOLEAN, summary_raised \in BOOLEAN :
            ShowGitStatus(repo_path, answer, raised, summary_raised)

SpecOps == OpsInit /\ [][OpsNext]_vars

\* some call made on the collaborator raised
CollaboratorFailed == \E i \in 1..Len(calls) : calls[i].raised

(***************************************************************************)
(* C21: store_experience with a text that is empty or blank returns False  *)
(* and retrieve_memories with a query that is empty or blank returns None, *)
(* both at once: no call is made on the collaborator and the store is as   *)
(* it was.                                                                 *)
(***************************************************************************)
C21_EmptyInputNotAttempted ==
    (/\ pc = "done"
     /\ reply.op \in {"store_experience", "retrieve_memories"}
     /\ Strip(reply.query) = <<>>) =>
        /\ calls = <<>>
        /\ store = store0
        /\ reply.op = "store_experience" => (~reply.success /\ ~reply.none)
        /\ reply.op = "retrieve_memories" => reply.none

C21_Witness ==
    /\ pc = "done"
    /\ reply.op = "store_experience"
    /\ reply.query = <<" ">>
    /\ ~reply.success
    /\ calls = <<>>
    /\ out = <<Line("empty_text", DirUnit)>>

(***************************************************************************)
(* C22: whenever a call on the collaborator fails inside an operation of   *)
(* CognitiveCLI, the value the operation returns tells its caller of the   *)
(* failure: it is False or None.                                           *)
(***************************************************************************)
C22_NoErrorDiscarded ==
    (pc = "done" /\ reply.op # "none" /\ CollaboratorFailed) =>
        ~reply.success

(***************************************************************************)
(* The command line of memory_system/cli.py.  An exception in flight is a  *)
(* record; typer.Exit is click's Exit, a RuntimeError, so a handler of     *)
(* Exception catches it.                                                   *)
(***************************************************************************)
MaxChecks == 2                  \* checks in a health report

NoException == [kind |-> "none", code |-> 0]

\* typer.Exit(code)
Exit(code) == [kind |-> "Exit", code |-> code]

Error == [kind |-> "Error", code |-> 0]

KeyboardInterrupt == [kind |-> "KeyboardInterrupt", code |-> 0]

\* isinstance(e, Exception): KeyboardInterrupt is a BaseException only
IsException(e) == e.kind \in {"Error", "Exit"}

\* except Exception as e: raise typer.Exit(1) from e
ExceptExit1(e) == IF IsException(e) THEN Exit(1) ELSE e

\* the variables of a CognitiveCLI
Cli == <<tree, linked, store, store0, pc, source_path, loader_type, dry_run,
         recursive, markdown_files, sorted_files, idx, Totals, calls, out,
         ret, history, held, reply>>

\* no CognitiveCLI operation is under way
Quiet ==
    /\ linked = FALSE
    /\ store = InitialStore
    /\ store0 = store
    /\ pc = "idle"
    /\ source_path = DirUnit
    /\ loader_type = "markdown"
    /\ dry_run = FALSE
    /\ recursive = FALSE
    /\ markdown_files = <<>>
    /\ sorted_files = <<>>
    /\ idx = 0
    /\ total_success = TRUE
    /\ total_memories_loaded = 0
    /\ total_connections_created = 0
    /\ total_memories_failed = 0
    /\ total_connections_failed = 0
    /\ hierarchy_dist_combined = ZeroDist
    /\ calls = <<>>
    /\ out = <<>>
    /\ ret = FALSE
    /\ history = <<>>
    /\ reply = NoReply

\* HealthResult, and the "status" of MonitoringService.health_check()
HealthStatuses == {"healthy", "warning", "critical"}

CheckStatuses == {"pass", "warn", "fail"}

\* the reports a checker may give: an overall status and the checks made
HealthReports ==
    {[raised |-> FALSE, status |-> st, checks |-> cs] :
        st \in HealthStatuses,
        cs \in UNION {[1..n -> CheckStatuses] : n \in 0..MaxChecks}}
    \cup {[raised |-> TRUE, status |-> "critical", checks |-> <<>>]}

\* main of memory_system/cli.py: the exit code for what app() ended with
UnifiedMain(e) ==
    CASE e.kind = "none" -> 0
      [] e.kind = "Exit" -> e.code
      [] e.kind = "KeyboardInterrupt" -> 130
      [] OTHER -> 1

\* what the body of health_check's try block raises
DoctorBody(report) ==
    IF report.raised THEN Error
    ELSE IF report.status = "healthy" THEN NoException
    ELSE IF report.status = "warning" THEN Exit(1)
    ELSE Exit(2)

\* doctor: run_all_checks, show the results, exit by the overall status
HealthCheck(json_output, verbose, fix, report) ==
    /\ proc.pc = "start"
    /\ proc' = [pc |-> "exited", command |-> "doctor",
                json_output |-> json_output, report |-> report,
                exit_code |-> UnifiedMain(ExceptExit1(DoctorBody(report)))]
    /\ UNCHANGED <<Cli, collections, clean>>

\* what the body of monitor_health's try block raises
MonitorHealthBody(json_output, report) ==
    IF report.raised THEN Error
    ELSE IF json_output THEN NoException
    ELSE IF report.status = "healthy" THEN NoException
    ELSE IF report.status = "warning" THEN Exit(1)
    ELSE Exit(2)

\* monitor health
MonitorHealth(json_output, report) ==
    /\ proc.pc = "start"
    /\ proc' = [pc |-> "exited", command |-> "monitor health",
                json_output |-> json_output, report |-> report,
                exit_code |->
                    UnifiedMain(ExceptExit1(
                        MonitorHealthBody(json_output, report)))]
    /\ UNCHANGED <<Cli, collections, clean>>

HealthInit ==
    /\ Quiet
    /\ tree = {GitEntry}
    /\ held = NothingHeld
    /\ proc = [pc |-> "start"]
    /\ collections = {}
    /\ clean = NoClean

HealthNext ==
    \/ \E json_output \in BOOLEAN, verbose \in BOOLEAN, fix \in BOOLEAN,
          report \in HealthReports :
            HealthCheck(json_output, verbose, fix, report)
    \/ \E json_output \in BOOLEAN, report \in HealthReports :
            MonitorHealth(json_output, report)

SpecHealth == HealthInit /\ [][HealthNext]_vars

(***************************************************************************)
(* C23: doctor and monitor health end with exit code 2 when the overall    *)
(* status is critical or unhealthy, with 1 when it is a warning and with 0 *)
(* when it is healthy.                                                     *)
(***************************************************************************)
C23_HealthExitCodes ==
    (proc.pc = "exited" /\ proc.command \in {"doctor", "monitor health"}
        /\ ~proc.report.raised) =>
        proc.exit_code = CASE proc.report.status = "healthy" -> 0
                           [] proc.report.status = "warning" -> 1
                           [] OTHER -> 2

(***************************************************************************)
(* main of interfaces/cli.py: initialization, the dispatch of one command, *)
(* graceful_shutdown and the exit code.  The command itself runs as the    *)
(* CognitiveCLI operations above.                                          *)
(***************************************************************************)
MaxTurns == 1                   \* commands read by the interactive loop

Commands == {"store", "retrieve", "status", "consolidate", "load", "clear",
             "git-load", "git-status", "git-patterns", "interactive"}

\* --level: absent ("") or one of the choices
LevelArgs == {"", "0", "1", "2"}

\* how initialize_system / initialize_with_config end
InitOutcomes == {"ok", "InitializationError", "Error", "KeyboardInterrupt"}

\* the trees main is run on: .git alone, or two markdown files
MainTrees == {{GitEntry}, {1, 2}}

Process(at, command, level, initialized, exit_code) ==
    [pc |-> at, command |-> command, level |-> level,
     initialized |-> initialized, exit_code |-> exit_code, shutdowns |-> 0,
     exc |-> "none", turns |-> 0, ended_by |-> "none"]

\* parse_args, then the initialization of the cognitive system
MainStart(command, outcome) ==
    /\ proc.pc = "start"
    /\ proc' = CASE command = "" -> Process("exited", command, "", FALSE, 1)
                 [] outcome = "ok" -> Process("dispatch", command, "", TRUE, 0)
                 [] outcome = "KeyboardInterrupt" ->
                        Process("exited", command, "", FALSE, 130)
                 [] OTHER -> Process("exited", command, "", FALSE, 1)
    /\ command = "" => outcome = "ok"
    /\ UNCHANGED <<Cli, collections, clean>>

Dispatching(command) ==
    proc.pc = "dispatch" /\ proc.command = command /\ pc = "idle"

\* the store command: store_experience with --context, and again with the
\* level as context when --level is given; the second result is the one kept
MainStore(text, context_json, level, first, second) ==
    /\ Dispatching("store")
    /\ LET o1 == StoreOutcome(text, FALSE, context_json, first)
           o2 == StoreOutcome(text, TRUE, "", second)
           again == level # ""
           store1 == IF o1.ret THEN store \cup {ExperienceId(store)}
                     ELSE store
       IN  /\ first # "id" => o1.calls # <<>>
           /\ second # "id" => (again /\ o2.calls # <<>>)
           /\ calls' = calls \o o1.calls \o (IF again THEN o2.calls ELSE <<>>)
           /\ out' = out \o o1.lines \o (IF again THEN o2.lines ELSE <<>>)
           /\ store' = IF again /\ o2.ret
                       THEN store1 \cup {ExperienceId(store1)} ELSE store1
           /\ reply' = OpReply("store_experience", text,
                               IF again THEN o2.ret ELSE o1.ret, FALSE)
    /\ proc' = [proc EXCEPT !.level = level]
    /\ pc' = "done"
    /\ UNCHANGED <<tree, linked, store0, source_path, loader_type, dry_run,
                   recursive, markdown_files, sorted_files, idx, Totals, ret,
                   history, collections, clean, held>>

\* the clear command: clear_memories prints and returns False
MainClear(memory_type, confirm) ==
    /\ Dispatching("clear")
    /\ out' = Append(out, Line("not_implemented", DirUnit))
    /\ reply' = OpReply("clear_memories", <<>>, FALSE, FALSE)
    /\ pc' = "done"
    /\ UNCHANGED <<tree, linked, store, store0, source_path, loader_type,
                   dry_run, recursive, markdown_files, sorted_files, idx,
                   Totals, calls, ret, history, held, proc, collections,
                   clean>>

\* the other commands are one CognitiveCLI operation each
MainRetrieve(query, types, limit, raised) ==
    Dispatching("retrieve") /\ RetrieveMemories(query, types, limit, TRUE, raised)

MainStatus(detailed, answer) ==
    Dispatching("status") /\ ShowStatus(detailed, TRUE, answer)

MainConsolidate(dr, raised) ==
    Dispatching("consolidate") /\ ConsolidateMemories(dr, raised)

MainGitLoad(repo_path, dr, refresh) ==
    Dispatching("git-load") /\ LoadGitPatterns(repo_path, dr, refresh)

MainGitStatus(repo_path, answer, raised, summary_raised) ==
    /\ Dispatching("git-status")
    /\ ShowGitStatus(repo_path, answer, raised, summary_raised)

MainGitPatterns(query, pattern_type, limit, raised, summary_raised) ==
    /\ Dispatching("git-patterns")
    /\ SearchGitPatterns(query, pattern_type, limit, raised, summary_raised)

\* the load command: load_memories, entered and then run unit by unit
MainLoad ==
    /\ proc.pc = "dispatch" /\ proc.command = "load"
    /\ \/ \E src \in {DirUnit} \cup FileIds, lt \in {"markdown", "git"},
             dr \in BOOLEAN, rec \in BOOLEAN :
                \/ LoadDirNotRecursive(src, lt, dr, rec)
                \/ LoadDirNoFiles(src, lt, dr, rec)
                \/ LoadDirBegin(src, lt, dr, rec)
                \/ LoadSingleInvalid(src, lt, dr, rec)
                \/ LoadSingleDryRun(src, lt, dr, rec)
                \/ LoadSingleStore(src, lt, dr, rec)
       \/ SkipInvalidUnit
       \/ AnalyzeUnit
       \/ LoadUnit
       \/ LoadDirFinish

\* the value the command handed back is a true one
CommandSucceeded ==
    CASE proc.command \in {"load", "git-load"} -> ret
      [] proc.command = "retrieve" -> ~reply.none /\ reply.results # <<>>
      [] OTHER -> reply.success

\* exit_code = 0 if success else 1, and on to the finally clause
MainFinish ==
    /\ proc.pc = "dispatch"
    /\ proc.command # "interactive"
    /\ pc = "done"
    /\ proc' = [proc EXCEPT !.pc = "shutdown",
                            !.exit_code = IF CommandSucceeded THEN 0 ELSE 1]
    /\ UNCHANGED <<Cli, collections, clean>>

\* the interrupt is caught as an Exception is
InterruptCaught ==
    /\ proc.pc = "dispatch"
    /\ proc.command # "interactive"
    /\ pc \in {"idle", "loop"}
    /\ proc' = [proc EXCEPT !.pc = "shutdown", !.exc = "Error",
                            !.ended_by = "KeyboardInterrupt"]
    /\ pc' = "aborted"
    /\ UNCHANGED <<tree, linked, store, store0, source_path, loader_type,
                   dry_run, recursive, markdown_files, sorted_files, idx,
                   Totals, calls, out, ret, history, held, reply,
                   collections, clean>>

\* a KeyboardInterrupt arrives while the command runs: no handler of
\* Exception catches it, the finally clause is next
Interrupt ==
    /\ proc.pc = "dispatch"
    /\ proc.command # "interactive"
    /\ pc \in {"idle", "loop"}
    /\ proc' = [proc EXCEPT !.pc = "shutdown", !.exc = "KeyboardInterrupt",
                            !.ended_by = "KeyboardInterrupt"]
    /\ pc' = "aborted"
    /\ UNCHANGED <<tree, linked, store, store0, source_path, loader_type,
                   dry_run, recursive, markdown_files, sorted_files, idx,
                   Totals, calls, out, ret, history, held, reply,
                   collections, clean>>

\* an exception leaves the command (a print that fails)
Crash ==
    /\ proc.pc = "dispatch"
    /\ proc.command # "interactive"
    /\ pc \in {"idle", "loop"}
    /\ proc' = [proc EXCEPT !.pc = "shutdown", !.exc = "Error"]
    /\ pc' = "aborted"
    /\ UNCHANGED <<tree, linked, store, store0, source_path, loader_type,
                   dry_run, recursive, markdown_files, sorted_files, idx,
                   Totals, calls, out, ret, history, held, reply,
                   collections, clean>>

\* the exit code main returns for what left the try block
MainReturn(exc, exit_code) ==
    CASE exc = "none" -> exit_code
      [] exc = "KeyboardInterrupt" -> 130
      [] OTHER -> 1

\* the finally clause is skipped when the command failed
ShutdownOnSuccess(ok) ==
    /\ proc.pc = "shutdown"
    /\ proc' = [proc EXCEPT
                    !.pc = "exited",
                    !.shutdowns = IF proc.exit_code = 0 /\ proc.exc = "none"
                                  THEN @ + 1 ELSE @,
                    !.exit_code = MainReturn(proc.exc, proc.exit_code)]
    /\ out' = Append(out, Line("shutdown", DirUnit))
    /\ UNCHANGED <<tree, linked, store, store0, pc, source_path, loader_type,
                   dry_run, recursive, markdown_files, sorted_files, idx,
                   Totals, calls, ret, history, held, reply, collections,
                   clean>>

\* finally: graceful_shutdown(cognitive_system), then main returns
Shutdown(ok) ==
    /\ proc.pc = "shutdown"
    /\ proc' = [proc EXCEPT !.pc = "exited", !.shutdowns = @ + 1,
                            !.exit_code = MainReturn(proc.exc, proc.exit_code)]
    /\ out' = Append(out, Line(IF ok THEN "shutdown" ELSE "shutdown_warnings",
                               DirUnit))
    /\ UNCHANGED <<tree, linked, store, store0, pc, source_path, loader_type,
                   dry_run, recursive, markdown_files, sorted_files, idx,
                   Totals, calls, ret, history, held, reply, collections,
                   clean>>

\* the interactive loop is at its prompt and may read one more command
Prompting ==
    /\ proc.pc = "dispatch" /\ proc.command = "interactive"
    /\ pc = "idle"
    /\ proc.turns < MaxTurns

\* "store <text>": the command line is stripped, so the text is not blank
InteractiveStore(text, answer) ==
    /\ Prompting
    /\ Strip(text) # <<>>
    /\ StoreExperience(text, FALSE, "", answer)

\* "retrieve <query>" and "bridges <query>"
InteractiveRetrieve(query, bridges, raised) ==
    /\ Prompting
    /\ Strip(query) # <<>>
    /\ RetrieveMemories(query,
                        IF bridges THEN [given |-> TRUE, list |-> <<"bridge">>]
                        ELSE [given |-> FALSE, list |-> <<>>],
                        10, TRUE, raised)

\* "status" and "config"
InteractiveStatus(detailed, answer) ==
    Prompting /\ ShowStatus(detailed, TRUE, answer)

InteractiveConsolidate(raised) ==
    Prompting /\ ConsolidateMemories(FALSE, raised)

\* "load <path>": load_memories with its defaults
InteractiveLoad(src) ==
    /\ Prompting
    /\ \/ LoadDirNotRecursive(src, "markdown", FALSE, FALSE)
       \/ LoadSingleInvalid(src, "markdown", FALSE, FALSE)
       \/ LoadSingleStore(src, "markdown", FALSE, FALSE)

\* an empty line, help, "load" without a path, an unknown command, or an
\* exception caught by the loop: a message at most, and the prompt again
InteractiveOther(kind) ==
    /\ Prompting
    /\ proc' = [proc EXCEPT !.turns = @ + 1]
    /\ out' = IF kind = "empty" THEN out ELSE Append(out, Line(kind, DirUnit))
    /\ UNCHANGED <<tree, linked, store, store0, pc, source_path, loader_type,
                   dry_run, recursive, markdown_files, sorted_files, idx,
                   Totals, calls, ret, history, held, reply, collections,
                   clean>>

\* the loop ends when a command has failed
InteractivePromptUnlessFailed ==
    /\ proc.pc = "dispatch" /\ proc.command = "interactive"
    /\ pc = "done"
    /\ LET failed == IF reply.op = "none" THEN ~ret ELSE ~reply.success
       IN  proc' = IF failed
                   THEN [proc EXCEPT !.pc = "shutdown", !.exit_code = 1,
                                     !.ended_by = "failure"]
                   ELSE [proc EXCEPT !.turns = @ + 1]
    /\ pc' = "idle"
    /\ reply' = NoReply
    /\ UNCHANGED <<tree, linked, store, store0, source_path, loader_type,
                   dry_run, recursive, markdown_files, sorted_files, idx,
                   Totals, calls, out, ret, history, held, collections,
                   clean>>

\* the command has returned, whatever it returned: while True
InteractivePrompt ==
    /\ proc.pc = "dispatch" /\ proc.command = "interactive"
    /\ pc = "done"
    /\ proc' = [proc EXCEPT !.turns = @ + 1]
    /\ pc' = "idle"
    /\ reply' = NoReply
    /\ UNCHANGED <<tree, linked, store, store0, source_path, loader_type,
                   dry_run, recursive, markdown_files, sorted_files, idx,
                   Totals, calls, out, ret, history, held, collections,
                   clean>>

\* quit, exit or q; end of input; a KeyboardInterrupt at the prompt or in a
\* command: "Goodbye!", break, and main sets exit_code = 0
InteractiveEnd(how) ==
    /\ proc.pc = "dispatch" /\ proc.command = "interactive"
    /\ pc \in {"idle", "done"}
    /\ pc = "done" => how = "KeyboardInterrupt"
    /\ proc' = [proc EXCEPT !.pc = "shutdown", !.exit_code = 0,
                            !.ended_by = how]
    /\ out' = Append(out, Line("goodbye", DirUnit))
    /\ UNCHANGED <<tree, linked, store, store0, pc, source_path, loader_type,
                   dry_run, recursive, markdown_files, sorted_files, idx,
                   Totals, calls, ret, history, held, reply, collections,
                   clean>>

MainInit ==
    /\ Quiet
    /\ tree \in MainTrees
    /\ held \in {NothingHeld, MixedHeld}
    /\ proc = Process("start", "", "", FALSE, 0)
    /\ collections = {}
    /\ clean = NoClean

MainNext ==
    \/ \E command \in Commands \cup {""}, outcome \in InitOutcomes :
            MainStart(command, outcome)
    \/ \E text \in Queries, context_json \in ContextJsonArgs,
          level \in LevelArgs, first \in StoreAnswers,
          second \in StoreAnswers :
            MainStore(text, context_json, level, first, second)
    \/ \E query \in Queries, types \in TypesArgs \ {[given |-> TRUE,
                                                      list |-> <<>>]},
          limit \in 0..MaxLimit, raised \in BOOLEAN :
            MainRetrieve(query, types, limit, raised)
    \/ \E detailed \in BOOLEAN, answer \in StatsAnswers :
            MainStatus(detailed, answer)
    \/ \E dr \in BOOLEAN, raised \in BOOLEAN : MainConsolidate(dr, raised)
    \/ MainLoad
    \/ \E memory_type \in {"all", "episodic"}, confirm \in BOOLEAN :
            MainClear(memory_type, confirm)
    \/ \E repo_path \in {DirUnit} \cup FileIds, dr \in BOOLEAN,
          refresh \in BOOLEAN :
            MainGitLoad(repo_path, dr, refresh)
    \/ \E repo_path \in RepoPathArgs, answer \in StatsAnswers,
          raised \in BOOLEAN, summary_raised \in BOOLEAN :
            MainGitStatus(repo_path, answer, raised, summary_raised)
    \/ \E query \in Queries, pattern_type \in PatternTypeArgs,
          limit \in 0..MaxLimit, raised \in BOOLEAN,
          summary_raised \in BOOLEAN :
            MainGitPatterns(query, pattern_type, limit, raised,
                            summary_raised)
    \/ MainFinish
    \/ Interrupt
    \/ Crash
    \/ \E ok \in BOOLEAN : Shutdown(ok)
    \/ \E text \in Queries, answer \in StoreAnswers :
            InteractiveStore(text, answer)
    \/ \E query \in Queries, bridges \in BOOLEAN, raised \in BOOLEAN :
            InteractiveRetrieve(query, bridges, raised)
    \/ \E detailed \in BOOLEAN, answer \in StatsAnswers :
            InteractiveStatus(detailed, answer)
    \/ \E raised \in BOOLEAN : InteractiveConsolidate(raised)
    \/ \E src \in {DirUnit} \cup FileIds : InteractiveLoad(src)
    \/ \E kind \in {"empty", "help", "usage", "unknown", "error"} :
            InteractiveOther(kind)
    \/ InteractivePrompt
    \/ \E how \in {"quit", "EOF", "KeyboardInterrupt"} : InteractiveEnd(how)

SpecMain == MainInit /\ [][MainNext]_vars

\* a many-unit ingestion run by the load command was cut by an interrupt
IngestionInterrupted ==
    /\ proc.command = "load"
    /\ proc.ended_by = "KeyboardInterrupt"
    /\ sorted_files # <<>>

StoreCalls == {i \in 1..Len(calls) : calls[i].op = "store_experience"}

(***************************************************************************)
(* C24: when a KeyboardInterrupt arrives while the load command is working *)
(* through the units of a directory, the run stops there: from the         *)
(* interrupt on no call is made on the loader or the cognitive system, the *)
(* store keeps every record committed before it, and the process exits     *)
(* with code 130 after one graceful_shutdown.                              *)
(***************************************************************************)
C24_InterruptAborts ==
    /\ [][(/\ proc'.command = "load"
            /\ proc'.ended_by = "KeyboardInterrupt"
            /\ sorted_files' # <<>>) =>
                (calls' = calls /\ store' = store /\ idx' = idx
                    /\ pc' = "aborted")]_vars
    /\ [](IngestionInterrupted =>
            /\ proc.pc \in {"shutdown", "exited"}
            /\ \A u \in Range(sorted_files) :
                LoadAttempted(u) => \E k \in 1..idx : sorted_files[k] = u
            /\ proc.pc = "exited" =>
                (proc.exit_code = 130 /\ proc.shutdowns = 1))

C24_Witness ==
    /\ IngestionInterrupted
    /\ proc.pc = "exited"
    /\ proc.exit_code = 130
    /\ idx = 1 /\ Len(sorted_files) = 2
    /\ store # store0
    /\ ~dry_run

(***************************************************************************)
(* C26: once the cognitive system has been initialized, graceful_shutdown  *)
(* is called exactly once before main returns, whether the command         *)
(* succeeded, failed, raised or was interrupted; it is not called before   *)
(* the command has ended, and never when the initialization failed or no   *)
(* command was given.                                                      *)
(***************************************************************************)
C26_TeardownOnce ==
    /\ proc.pc \in {"start", "dispatch", "shutdown"} => proc.shutdowns = 0
    /\ proc.pc = "exited" =>
        proc.shutdowns = IF proc.initialized THEN 1 ELSE 0

C26_Witness ==
    /\ proc.pc = "exited"
    /\ proc.initialized
    /\ proc.exc = "Error"
    /\ proc.shutdowns = 1
    /\ proc.exit_code = 1

(***************************************************************************)
(* C27: one store command calls the collaborator's store_experience at     *)
(* most once, whatever --context and --level, and exits with 0 exactly     *)
(* when that call gave an id.                                              *)
(***************************************************************************)
C27_OneStorePerCommand ==
    (proc.command = "store" /\ proc.pc = "exited" /\ proc.exc = "none"
        /\ proc.initialized) =>
        /\ Cardinality(StoreCalls) <= 1
        /\ proc.exit_code = 0 <=>
            \E i \in StoreCalls : ~calls[i].raised /\ calls[i].value.id

(***************************************************************************)
(* C30: in the interactive loop no command, failed or not, ends the        *)
(* session: the loop is left only on quit/exit/q, on end of input or on a  *)
(* KeyboardInterrupt, and main then shuts the system down once and exits   *)
(* with code 0.                                                            *)
(***************************************************************************)
C30_InteractiveRobust ==
    /\ [][(/\ proc.command = "interactive"
            /\ proc.pc = "dispatch"
            /\ proc'.pc # "dispatch") =>
                (/\ proc'.ended_by \in {"quit", "EOF", "KeyboardInterrupt"}
                 /\ proc'.pc = "shutdown"
                 /\ proc'.exit_code = 0)]_vars
    /\ []((proc.command = "interactive" /\ proc.pc = "exited"
            /\ proc.initialized) =>
                (proc.exit_code = 0 /\ proc.shutdowns = 1))

C30_Witness ==
    /\ proc.command = "interactive"
    /\ proc.pc = "exited"
    /\ proc.turns = 1
    /\ \E i \in 1..Len(out) : out[i].msg = "error_storing"
    /\ proc.ended_by = "quit"
    /\ proc.exit_code = 0

(***************************************************************************)
(* project_clean and project_list of heimdall/cli_commands.  A collection  *)
(* name is the sequence of the parts its "_" separate: <<"a", "concepts">> *)
(* is a_concepts; a project id is one likewise.                            *)
(***************************************************************************)

\* the suffixes told apart by project_list and project_clean
Levels == {"concepts", "contexts", "episodes"}

\* the collections the shared Qdrant instance may hold
CollectionNames ==
    {<<"a", "concepts">>, <<"a", "episodes">>, <<"a", "b", "concepts">>,
     <<"a", "other">>}

\* project_list: name.rsplit("_", 1) gives the project id when the last
\* part is a level; <<>> when the collection is no project's
ProjectOf(name) ==
    IF Len(name) >= 2 /\ name[Len(name)] \in Levels
    THEN SubSeq(name, 1, Len(name) - 1)
    ELSE <<>>

\* project_clean: name.startswith(project_id + "_") and
\* name.endswith(("_concepts", "_contexts", "_episodes"))
IsProjectCollection(project_id, name) ==
    /\ Len(name) > Len(project_id)
    /\ SubSeq(name, 1, Len(project_id)) = project_id
    /\ Len(name) >= 2 /\ name[Len(name)] \in Levels

\* --dry-run is not looked at
CleanBeginNoDryRun(project_id, confirm, json_output, dr, running, answer) ==
    /\ clean.pc = "start"
    /\ LET found == {c \in collections : IsProjectCollection(project_id, c)}
           raised == IF ~running \/ found = {} THEN Exit(1)
                     ELSE IF ~confirm /\ ~answer THEN Exit(0)
                     ELSE NoException
           over == raised # NoException
       IN  clean' = [pc |-> IF over THEN "exited" ELSE "deleting",
                     project_id |-> project_id, confirm |-> confirm,
                     json_output |-> json_output, dry_run |-> dr,
                     running |-> running,
                     declined |-> running /\ found # {} /\ ~confirm
                                    /\ ~answer,
                     before |-> collections, found |-> found,
                     todo |-> IF over THEN {} ELSE found,
                     delete_calls |-> <<>>, deleted |-> <<>>,
                     failed |-> <<>>,
                     exit_code |->
                        UnifiedMain(ExceptExit1(ExceptExit1(raised)))]
    /\ UNCHANGED <<Cli, proc, collections>>

\* project_clean up to the deletion loop: the Qdrant status, the project's
\* collections, the dry run and the answer to typer.confirm.  What is raised inside
\* the two try blocks is turned into Exit(1) by their handlers.
CleanBegin(project_id, confirm, json_output, dr, running, answer) ==
    /\ clean.pc = "start"
    /\ LET found == {c \in collections : IsProjectCollection(project_id, c)}
           raised == IF ~running \/ found = {} THEN Exit(1)
                     ELSE IF dr THEN NoException
                     ELSE IF ~confirm /\ ~answer THEN Exit(0)
                     ELSE NoException
           over == raised # NoException \/ dr
       IN  clean' = [pc |-> IF over THEN "exited" ELSE "deleting",
                     project_id |-> project_id, confirm |-> confirm,
                     json_output |-> json_output, dry_run |-> dr,
                     running |-> running,
                     declined |-> running /\ found # {} /\ ~dr
                                    /\ ~confirm /\ ~answer,
                     before |-> collections, found |-> found,
                     todo |-> IF over THEN {} ELSE found,
                     delete_calls |-> <<>>, deleted |-> <<>>,
                     failed |-> <<>>,
                     exit_code |->
                        UnifiedMain(ExceptExit1(ExceptExit1(raised)))]
    /\ UNCHANGED <<Cli, proc, collections>>

\* one turn of the deletion loop: delete_collection removes the collection,
\* or raises and leaves it
CleanDelete(ok) ==
    /\ clean.pc = "deleting"
    /\ \E c \in clean.todo :
        /\ clean' = [clean EXCEPT
                        !.todo = @ \ {c},
                        !.delete_calls = Append(@, c),
                        !.deleted = IF ok THEN Append(@, c) ELSE @,
                        !.failed = IF ok THEN @ ELSE Append(@, c)]
        /\ collections' = IF ok THEN collections \ {c} ELSE collections
    /\ UNCHANGED <<Cli, proc>>

\* after the loop: the report, and Exit(1) for failed deletions in the
\* branch without --json
CleanFinish ==
    /\ clean.pc = "deleting"
    /\ clean.todo = {}
    /\ LET raised == IF ~clean.json_output /\ clean.failed # <<>>
                     THEN Exit(1) ELSE NoException
       IN  clean' = [clean EXCEPT
                        !.pc = "exited",
                        !.exit_code =
                            UnifiedMain(ExceptExit1(ExceptExit1(raised)))]
    /\ UNCHANGED <<Cli, proc, collections>>

ProjectInit ==
    /\ Quiet
    /\ tree = {GitEntry}
    /\ held = NothingHeld
    /\ proc = NoProc
    /\ collections \in SUBSET CollectionNames
    /\ clean = [pc |-> "start"]

ProjectNext ==
    \/ \E project_id \in {<<"a">>, <<"a", "b">>, <<"c">>},
          confirm \in BOOLEAN, json_output \in BOOLEAN, dr \in BOOLEAN,
          running \in BOOLEAN, answer \in BOOLEAN :
            CleanBegin(project_id, confirm, json_output, dr, running, answer)
    \/ \E ok \in BOOLEAN : CleanDelete(ok)
    \/ CleanFinish

SpecProject == ProjectInit /\ [][ProjectNext]_vars

Began == clean.pc \in {"deleting", "exited"}

(***************************************************************************)
(* C25: project_clean with --dry-run deletes nothing: it makes no          *)
(* delete_collection call, with or without --yes, and ends with the        *)
(* collections it found.                                                   *)
(***************************************************************************)
C25_DryRunDeletesNothing ==
    (Began /\ clean.dry_run) =>
        /\ clean.pc = "exited"
        /\ clean.delete_calls = <<>>
        /\ collections = clean.before

C25_Witness ==
    /\ clean.pc = "exited"
    /\ clean.dry_run
    /\ clean.confirm
    /\ Cardinality(clean.found) = 2
    /\ clean.exit_code = 0
    /\ collections = clean.before

(***************************************************************************)
(* C28: project_clean(P) calls delete_collection only on collections that  *)
(* project_list attributes to P, and every collection of another project,  *)
(* or of none, is still there afterwards.                                  *)
(***************************************************************************)
C28_CleanScopedToProject ==
    Began =>
        /\ \A i \in 1..Len(clean.delete_calls) :
            ProjectOf(clean.delete_calls[i]) = clean.project_id
        /\ \A c \in clean.before :
            ProjectOf(c) # clean.project_id => c \in collections

(***************************************************************************)
(* C29: when the confirmation is declined, project_clean deletes nothing   *)
(* and exits with 0; when the deletion goes ahead, every collection found  *)
(* is attempted once and is in exactly one of the deleted and failed       *)
(* lists, and the exit code is 1 exactly when a deletion failed.           *)
(***************************************************************************)
C29_ConfirmationAndExit ==
    clean.pc = "exited" =>
        /\ clean.declined =>
            (clean.delete_calls = <<>> /\ collections = clean.before
                /\ clean.exit_code = 0)
        /\ (clean.running /\ clean.found # {} /\ ~clean.dry_run
                /\ ~clean.declined) =>
            /\ \A c \in clean.found :
                /\ Cardinality({i \in 1..Len(clean.delete_calls) :
                                    clean.delete_calls[i] = c}) = 1
                /\ (c \in Range(clean.deleted)) # (c \in Range(clean.failed))
            /\ Len(clean.deleted) + Len(clean.failed) = Cardinality(clean.found)
            /\ (clean.exit_code = 1) <=> (clean.failed # <<>>)

====
